---- MODULE Spec2Model ----
(***************************************************************************)
(* Wave-function stability analysis (pyscf/scf/stability.py).              *)
(*                                                                         *)
(* Eigenvalues are integers in units of 1e-6, so the cutoff -1e-5 is -10.  *)
(* Imaginary parts of a density matrix are integers in units of 1e-7, so   *)
(* the cutoff 1e-6 is 10.  In the dispatchers and the driver, orbital      *)
(* coefficients, occupations, eigenvectors and density matrices are        *)
(* symbolic values: what is recorded of them is which solution they belong *)
(* to and which operations produced them.  The closures handed to the      *)
(* eigensolver (preconditioners, guesses, Hessian-vector operators) and    *)
(* the assembly of the rotated orbitals work on concrete small vectors.    *)
(***************************************************************************)
EXTENDS Integers, Sequences, FiniteSets

VARIABLES pc, call, mf, mo1, stable, cyc, max_attempt, dm1, trace, num

vars == <<pc, call, mf, mo1, stable, cyc, max_attempt, dm1, trace, num>>

(***************************************************************************)
(* Bounds and program constants                                            *)
(***************************************************************************)
\* largest max_attempt handed to stable_opt_internal
MaxAttempt == 3

\* STAB_NROOTS = getattr(__config__, 'STAB_NROOTS', 3)
STAB_NROOTS == 3

\* the cutoff -1e-5 of every verdict, in units of 1e-6
Threshold == -10

\* the cutoff 1e-6 of is_complex, in units of 1e-7
ImagTol == 10

\* eigenvalues the solver may report: below, at and above the cutoff
EigVals == {-11, -10, 0, 1}

\* largest absolute imaginary parts of a density matrix
ImagVals == {0, 10, 11}

NRoots == 1..STAB_NROOTS

References == {"rhf", "uhf", "rohf", "ghf", "dhf"}

(***************************************************************************)
(* Python values                                                           *)
(***************************************************************************)
None == [t |-> "none"]
Bool(b) == [t |-> "bool", b |-> b]
Scalar(x) == [t |-> "scalar", x |-> x]
Array(xs) == [t |-> "array", xs |-> xs]
Tuple(items) == [t |-> "tuple", items |-> items]

\* x[i] with a zero-based index, on a tuple, an array or a list of vectors
Item(x, i) ==
  IF x.t = "tuple" THEN x.items[i + 1]
  ELSE IF x.t = "array" THEN Scalar(x.xs[i + 1])
  ELSE IF x.t = "veclist" THEN [t |-> "vec", chan |-> x.chan, root |-> i]
  ELSE [t |-> "elem", of |-> x, i |-> i]

\* len(x) of a tuple
PyLen(x) == Len(x.items)

\* e < c: a bool for a scalar, an elementwise bool array for an array
Less(e, c) ==
  IF e.t = "scalar" THEN Bool(e.x < c)
  ELSE [t |-> "boolarray", bs |-> [k \in 1..Len(e.xs) |-> e.xs[k] < c]]

\* whether bool(x) is defined: numpy refuses the truth value of an array
\* that does not hold exactly one element
HasTruth(x) == x.t # "boolarray" \/ Len(x.bs) = 1

\* bool(x)
Truth(x) ==
  IF x.t = "bool" THEN x.b
  ELSE IF x.t = "none" THEN FALSE
  ELSE IF x.t = "boolarray" THEN x.bs[1]
  ELSE TRUE

(***************************************************************************)
(* The SCF solution and what is derived from it                            *)
(***************************************************************************)
\* an SCF object: its reference, the generation of its converged solution,
\* the dtype of mo_coeff and the largest |imag| of its density matrix
Solution(ref, id, dtype, imag) ==
  [ref |-> ref, id |-> id, dtype |-> dtype, imag |-> imag]

Solutions(ref, id) ==
  IF ref = "ghf"
  THEN {Solution(ref, id, "float64", 0)} \cup
       {Solution(ref, id, "complex128", i) : i \in ImagVals}
  ELSE {Solution(ref, id, "float64", 0)}

mo_coeff(m) == [t |-> "coeff", of |-> m.id]
mo_occ(m) == [t |-> "occ", of |-> m.id]
Spin(x, s) == [t |-> "spin", of |-> x, s |-> s]
Slice(v, part) == [t |-> "slice", of |-> v, part |-> part]

\* mf.make_rdm1(mo, occ)
make_rdm1(mo, occ) == [t |-> "dm", mo |-> mo, occ |-> occ]

(***************************************************************************)
(* Results of a call: a returned value or a raised exception, and the log  *)
(* of what the call did (eigen-solves, status notes, rotations)            *)
(***************************************************************************)
Ok(ret, log) == [status |-> "ok", ret |-> ret, exc |-> "", log |-> log]
Raise(exc, log) == [status |-> "raise", ret |-> None, exc |-> exc, log |-> log]
Skip == Ok(None, <<>>)

Solve(chan, e) == [ev |-> "davidson", chan |-> chan, e |-> e]
Note(chan, s) == [ev |-> "note", chan |-> chan, stable |-> s]
Rotate(mo, occ, dx) == [ev |-> "rotate", mo |-> mo, occ |-> occ, dx |-> dx]

\* ascending eigenvalue sequences of length n: the lowest root, and the
\* higher roots degenerate with one another
Spectra(n) ==
  {s \in [1..n -> EigVals] :
     /\ \A i \in 1..n, j \in 1..n : i < j => s[i] <= s[j]
     /\ \A i \in 2..n, j \in 2..n : s[i] = s[j]}

\* lib.davidson(aop, x0, precond, nroots=nroots): the lowest nroots
\* eigenpairs of the spectrum sp, unwrapped to (scalar, vector) for one root
davidson(chan, sp, nroots) ==
  IF nroots = 1
  THEN [e |-> Scalar(sp[1]), v |-> [t |-> "vec", chan |-> chan, root |-> 0]]
  ELSE [e |-> Array(sp), v |-> [t |-> "veclist", chan |-> chan, n |-> nroots]]

\* _rotate_mo(mo_coeff, mo_occ, dx)
rotate_mo(mo, occ, dx) == [t |-> "rotated", mo |-> mo, occ |-> occ, dx |-> dx]


\* dump_status(log, stable, method_class, stab_type): one note per channel
dump_status(stab_type, s) == Note(stab_type, s)

(***************************************************************************)
(* Channels                                                                *)
(***************************************************************************)
\* rhf_internal, were it to rotate the orbitals whatever the verdict
rhf_internal_rotates_always(m, return_status, nroots, sp) ==
  LET d == davidson("rhf_internal", sp, nroots)
      e == IF nroots # 1 THEN Item(d.e, 0) ELSE d.e
      v == IF nroots # 1 THEN Item(d.v, 0) ELSE d.v
      st == ~Truth(Less(e, Threshold))
      mo == rotate_mo(mo_coeff(m), mo_occ(m), v)
      log == <<Solve("rhf_internal", d.e), dump_status("internal", st),
               Rotate(mo_coeff(m), mo_occ(m), v)>>
  IN Ok(IF return_status THEN Tuple(<<mo, Bool(st)>>) ELSE mo, log)

\* rhf_internal(mf, return_status=..., nroots=...), sp the Hessian's spectrum
rhf_internal(m, return_status, nroots, sp) ==
  LET d == davidson("rhf_internal", sp, nroots)
      e == IF nroots # 1 THEN Item(d.e, 0) ELSE d.e
      v == IF nroots # 1 THEN Item(d.v, 0) ELSE d.v
      cmp == Less(e, Threshold)
      st == ~Truth(cmp)
      mo == IF st THEN mo_coeff(m) ELSE rotate_mo(mo_coeff(m), mo_occ(m), v)
      log == <<Solve("rhf_internal", d.e), dump_status("internal", st)>>
             \o (IF st THEN <<>> ELSE <<Rotate(mo_coeff(m), mo_occ(m), v)>>)
  IN IF ~HasTruth(cmp) THEN Raise("ValueError", <<Solve("rhf_internal", d.e)>>)
     ELSE Ok(IF return_status THEN Tuple(<<mo, Bool(st)>>) ELSE mo, log)

\* rohf_internal(mf, return_status=..., nroots=...)
rohf_internal(m, return_status, nroots, sp) ==
  LET d == davidson("rohf_internal", sp, nroots)
      e == IF nroots # 1 THEN Item(d.e, 0) ELSE d.e
      v == IF nroots # 1 THEN Item(d.v, 0) ELSE d.v
      cmp == Less(e, Threshold)
      st == ~Truth(cmp)
      mo == IF st THEN mo_coeff(m) ELSE rotate_mo(mo_coeff(m), mo_occ(m), v)
      log == <<Solve("rohf_internal", d.e), dump_status("internal", st)>>
             \o (IF st THEN <<>> ELSE <<Rotate(mo_coeff(m), mo_occ(m), v)>>)
  IN IF ~HasTruth(cmp) THEN Raise("ValueError", <<Solve("rohf_internal", d.e)>>)
     ELSE Ok(IF return_status THEN Tuple(<<mo, Bool(st)>>) ELSE mo, log)

\* rohf_external, were it to give an empty result instead of raising
rohf_external_silent(m, return_status, nroots) ==
  Ok(IF return_status THEN Tuple(<<None, None>>) ELSE None, <<>>)

\* rohf_external(...): raise NotImplementedError
rohf_external(m, return_status, nroots) == Raise("NotImplementedError", <<>>)

\* uhf_internal(mf, return_status=..., nroots=...): the eigenvector is split
\* at nocca*nvira into the alpha and the beta rotation
uhf_internal(m, return_status, nroots, sp) ==
  LET d == davidson("uhf_internal", sp, nroots)
      e == IF nroots # 1 THEN Item(d.e, 0) ELSE d.e
      v == IF nroots # 1 THEN Item(d.v, 0) ELSE d.v
      cmp == Less(e, Threshold)
      st == ~Truth(cmp)
      ca == Spin(mo_coeff(m), 0)
      cb == Spin(mo_coeff(m), 1)
      oa == Spin(mo_occ(m), 0)
      ob == Spin(mo_occ(m), 1)
      va == Slice(v, "head")
      vb == Slice(v, "tail")
      mo == IF st THEN mo_coeff(m)
            ELSE Tuple(<<rotate_mo(ca, oa, va), rotate_mo(cb, ob, vb)>>)
      log == <<Solve("uhf_internal", d.e), dump_status("internal", st)>>
             \o (IF st THEN <<>> ELSE <<Rotate(ca, oa, va), Rotate(cb, ob, vb)>>)
  IN IF ~HasTruth(cmp) THEN Raise("ValueError", <<Solve("uhf_internal", d.e)>>)
     ELSE Ok(IF return_status THEN Tuple(<<mo, Bool(st)>>) ELSE mo, log)

\* rhf_external, were an unstable real -> complex verdict to make the
\* returned verdict unstable
rhf_external_r2c_decides(m, return_status, nroots, sp1, sp2) ==
  LET d1 == davidson("rhf_real2complex", sp1, nroots)
      e1 == IF nroots # 1 THEN Item(d1.e, 0) ELSE d1.e
      stable1 == ~Truth(Less(e1, Threshold))
      d3 == davidson("rhf_external", sp2, nroots)
      e3 == IF nroots # 1 THEN Item(d3.e, 0) ELSE d3.e
      v3 == IF nroots # 1 THEN Item(d3.v, 0) ELSE d3.v
      st == stable1 /\ ~Truth(Less(e3, Threshold))
      mo == IF st THEN Tuple(<<mo_coeff(m), mo_coeff(m)>>)
            ELSE Tuple(<<rotate_mo(mo_coeff(m), mo_occ(m), v3), mo_coeff(m)>>)
      log == <<Solve("rhf_real2complex", d1.e),
               dump_status("real -> complex", stable1),
               Solve("rhf_external", d3.e),
               dump_status("RHF/RKS -> UHF/UKS", st)>>
             \o (IF st THEN <<>> ELSE <<Rotate(mo_coeff(m), mo_occ(m), v3)>>)
  IN Ok(IF return_status THEN Tuple(<<mo, Bool(st)>>) ELSE mo, log)

\* rhf_external(mf, return_status=..., nroots=...): the real -> complex solve
\* (spectrum sp1), then the RHF -> UHF solve (spectrum sp2) seeded with v1
rhf_external(m, return_status, nroots, sp1, sp2) ==
  LET d1 == davidson("rhf_real2complex", sp1, nroots)
      e1 == IF nroots # 1 THEN Item(d1.e, 0) ELSE d1.e
      cmp1 == Less(e1, Threshold)
      stable1 == ~Truth(cmp1)
      d3 == davidson("rhf_external", sp2, nroots)
      e3 == IF nroots # 1 THEN Item(d3.e, 0) ELSE d3.e
      v3 == IF nroots # 1 THEN Item(d3.v, 0) ELSE d3.v
      cmp3 == Less(e3, Threshold)
      st == ~Truth(cmp3)
      mo == IF st THEN Tuple(<<mo_coeff(m), mo_coeff(m)>>)
            ELSE Tuple(<<rotate_mo(mo_coeff(m), mo_occ(m), v3), mo_coeff(m)>>)
      log1 == <<Solve("rhf_real2complex", d1.e),
                dump_status("real -> complex", stable1)>>
      log3 == <<Solve("rhf_external", d3.e),
                dump_status("RHF/RKS -> UHF/UKS", st)>>
              \o (IF st THEN <<>> ELSE <<Rotate(mo_coeff(m), mo_occ(m), v3)>>)
  IN IF ~HasTruth(cmp1)
     THEN Raise("ValueError", <<Solve("rhf_real2complex", d1.e)>>)
     ELSE IF ~HasTruth(cmp3)
     THEN Raise("ValueError", log1 \o <<Solve("rhf_external", d3.e)>>)
     ELSE Ok(IF return_status THEN Tuple(<<mo, Bool(st)>>) ELSE mo, log1 \o log3)

\* uhf_external(mf, return_status=..., nroots=...): the real -> complex solve,
\* then the UHF -> GHF solve; the orbitals are block_diag(*mo_coeff), rotated
\* and re-partitioned only when unstable
uhf_external(m, return_status, nroots, sp1, sp2) ==
  LET d1 == davidson("uhf_real2complex", sp1, nroots)
      e1 == IF nroots # 1 THEN Item(d1.e, 0) ELSE d1.e
      cmp1 == Less(e1, Threshold)
      stable1 == ~Truth(cmp1)
      d3 == davidson("uhf_external", sp2, nroots)
      e3 == IF nroots # 1 THEN Item(d3.e, 0) ELSE d3.e
      v == IF nroots # 1 THEN Item(d3.v, 0) ELSE d3.v
      cmp3 == Less(e3, Threshold)
      st == ~Truth(cmp3)
      blk == [t |-> "block_diag", of |-> mo_coeff(m)]
      mo == IF st THEN blk
            ELSE [t |-> "occ_first", of |->
                    [t |-> "expmat", mo |-> blk, occ |-> mo_occ(m), dx |-> v]]
      log1 == <<Solve("uhf_real2complex", d1.e),
                dump_status("real -> complex", stable1)>>
      log3 == <<Solve("uhf_external", d3.e),
                dump_status("UHF/UKS -> GHF/GKS", st)>>
              \o (IF st THEN <<>>
                  ELSE <<[ev |-> "expmat", mo |-> blk, occ |-> mo_occ(m), dx |-> v]>>)
  IN IF ~HasTruth(cmp1)
     THEN Raise("ValueError", <<Solve("uhf_real2complex", d1.e)>>)
     ELSE IF ~HasTruth(cmp3)
     THEN Raise("ValueError", log1 \o <<Solve("uhf_external", d3.e)>>)
     ELSE Ok(IF return_status THEN Tuple(<<mo, Bool(st)>>) ELSE mo, log1 \o log3)

\* ghf_real, were its returned verdict to take in the real -> complex one
ghf_real_surfaces_r2c(m, return_status, nroots, sp, sp2) ==
  LET d == davidson("ghf_real_internal", sp, nroots)
      e == IF nroots # 1 THEN Item(d.e, 0) ELSE d.e
      v == IF nroots # 1 THEN Item(d.v, 0) ELSE d.v
      st == ~Truth(Less(e, Threshold))
      mo == IF st THEN mo_coeff(m) ELSE rotate_mo(mo_coeff(m), mo_occ(m), v)
      d2 == davidson("ghf_real2complex", sp2, nroots)
      e2 == IF nroots # 1 THEN Item(d2.e, 0) ELSE d2.e
      stable_r2c == ~Truth(Less(e2, Threshold))
      log == <<Solve("ghf_real_internal", d.e), dump_status("internal", st)>>
             \o (IF st THEN <<>> ELSE <<Rotate(mo_coeff(m), mo_occ(m), v)>>)
             \o <<Solve("ghf_real2complex", d2.e),
                  dump_status("real -> complex", stable_r2c)>>
  IN Ok(IF return_status THEN Tuple(<<mo, Bool(st /\ stable_r2c)>>) ELSE mo, log)

\* ghf_real(mf, return_status=..., nroots=...): the internal solve (spectrum
\* sp), then the real -> complex solve (spectrum sp2), whose verdict is only
\* logged; line 834 rebinds v after mo has been built
ghf_real(m, return_status, nroots, sp, sp2) ==
  LET d == davidson("ghf_real_internal", sp, nroots)
      e == IF nroots # 1 THEN Item(d.e, 0) ELSE d.e
      v == IF nroots # 1 THEN Item(d.v, 0) ELSE d.v
      cmp == Less(e, Threshold)
      st == ~Truth(cmp)
      mo == IF st THEN mo_coeff(m) ELSE rotate_mo(mo_coeff(m), mo_occ(m), v)
      d2 == davidson("ghf_real2complex", sp2, nroots)
      e2 == IF nroots # 1 THEN Item(d2.e, 0) ELSE d2.e
      cmp2 == Less(e2, Threshold)
      stable_r2c == ~Truth(cmp2)
      log1 == <<Solve("ghf_real_internal", d.e), dump_status("internal", st)>>
              \o (IF st THEN <<>> ELSE <<Rotate(mo_coeff(m), mo_occ(m), v)>>)
      log2 == <<Solve("ghf_real2complex", d2.e),
                dump_status("real -> complex", stable_r2c)>>
  IN IF ~HasTruth(cmp)
     THEN Raise("ValueError", <<Solve("ghf_real_internal", d.e)>>)
     ELSE IF ~HasTruth(cmp2)
     THEN Raise("ValueError", log1 \o <<Solve("ghf_real2complex", d2.e)>>)
     ELSE Ok(IF return_status THEN Tuple(<<mo, Bool(st)>>) ELSE mo, log1 \o log2)

\* ghf_complex(mf, return_status=..., nroots=...): hdiag, and so the
\* eigenvector, has 2*nocc*nvir entries (line 758), while _rotate_mo fills the
\* nocc*nvir slots of the occupied-virtual mask with it (line 864); the
\* assignment of the wrong count raises ValueError, so an unstable verdict
\* never returns
ghf_complex(m, return_status, nroots, sp) ==
  LET d == davidson("ghf_complex_internal", sp, nroots)
      e == IF nroots # 1 THEN Item(d.e, 0) ELSE d.e
      v == IF nroots # 1 THEN Item(d.v, 0) ELSE d.v
      cmp == Less(e, Threshold)
      st == ~Truth(cmp)
      mo == IF st THEN mo_coeff(m) ELSE rotate_mo(mo_coeff(m), mo_occ(m), v)
      log == <<Solve("ghf_complex_internal", d.e), dump_status("internal", st)>>
             \o (IF st THEN <<>> ELSE <<Rotate(mo_coeff(m), mo_occ(m), v)>>)
  IN IF ~HasTruth(cmp)
     THEN Raise("ValueError", <<Solve("ghf_complex_internal", d.e)>>)
     ELSE IF ~st
     THEN Raise("ValueError", log)
     ELSE Ok(IF return_status THEN Tuple(<<mo, Bool(st)>>) ELSE mo, log)

(***************************************************************************)
(* Dispatchers.  sp holds the spectrum of each channel's Hessian:          *)
(* sp.int (internal), sp.r2c (real -> complex), sp.ext (reference          *)
(* extension).                                                             *)
(***************************************************************************)
\* value k of a two-element result, None for a channel that was not run
Part(r, enabled, return_status, k) ==
  IF ~enabled THEN None ELSE IF return_status THEN Item(r.ret, k) ELSE r.ret

\* the body shared by the three (internal, external) dispatchers once both
\* channel calls are known: the first exception propagates, else the tuple
Assemble(ri, re, internal, external, return_status) ==
  IF ri.status = "raise" THEN ri
  ELSE IF re.status = "raise" THEN Raise(re.exc, ri.log \o re.log)
  ELSE IF return_status
  THEN Ok(Tuple(<<Part(ri, internal, TRUE, 0), Part(re, external, TRUE, 0),
                  Part(ri, internal, TRUE, 1), Part(re, external, TRUE, 1)>>),
          ri.log \o re.log)
  ELSE Ok(Tuple(<<Part(ri, internal, FALSE, 0), Part(re, external, FALSE, 0)>>),
          ri.log \o re.log)

\* rhf_stability(mf, internal, external, verbose, return_status, nroots, tol)
rhf_stability(m, internal, external, return_status, nroots, sp) ==
  LET ri == IF internal THEN rhf_internal(m, return_status, nroots, sp.int)
            ELSE Skip
      re == IF external
            THEN rhf_external(m, return_status, nroots, sp.r2c, sp.ext)
            ELSE Skip
  IN Assemble(ri, re, internal, external, return_status)

\* uhf_stability, were it to run the internal channel whatever its flag
uhf_stability_internal_always(m, internal, external, return_status, nroots, sp) ==
  LET ri == uhf_internal(m, return_status, nroots, sp.int)
      re == IF external
            THEN uhf_external(m, return_status, nroots, sp.r2c, sp.ext)
            ELSE Skip
  IN Assemble(ri, re, TRUE, external, return_status)

\* uhf_stability(mf, internal, external, verbose, return_status, nroots, tol)
uhf_stability(m, internal, external, return_status, nroots, sp) ==
  LET ri == IF internal THEN uhf_internal(m, return_status, nroots, sp.int)
            ELSE Skip
      re == IF external
            THEN uhf_external(m, return_status, nroots, sp.r2c, sp.ext)
            ELSE Skip
  IN Assemble(ri, re, internal, external, return_status)

\* rohf_stability(mf, internal, external, verbose, return_status, nroots, tol)
rohf_stability(m, internal, external, return_status, nroots, sp) ==
  LET ri == IF internal THEN rohf_internal(m, return_status, nroots, sp.int)
            ELSE Skip
      re == IF external THEN rohf_external(m, return_status, nroots) ELSE Skip
  IN Assemble(ri, re, internal, external, return_status)

\* is_complex, were a density matrix with imaginary part of exactly 1e-6 to
\* count as complex
is_complex_inclusive(m) ==
  IF m.dtype = "float64" THEN FALSE ELSE m.imag >= ImagTol

\* is_complex(mf): the value it returns
is_complex(m) ==
  IF m.dtype = "float64" THEN FALSE ELSE m.imag > ImagTol

\* is_complex(mf): what it does, the density matrix is built in the else
\* branch only (line 213)
is_complex_log(m) ==
  IF m.dtype = "float64" THEN <<>> ELSE <<[ev |-> "make_rdm1", of |-> m.id]>>

\* ghf_stability(mf, verbose, return_status, nroots, tol): is_complex is
\* called once, in the branch of return_status that is taken
ghf_stability(m, return_status, nroots, sp) ==
  LET r == IF is_complex(m) THEN ghf_complex(m, return_status, nroots, sp.int)
           ELSE ghf_real(m, return_status, nroots, sp.int, sp.r2c)
  IN [r EXCEPT !.log = is_complex_log(m) \o @]

\* dhf_stability(mf, verbose, return_status, nroots, tol): e and v are used
\* as the solver returned them
dhf_stability(m, return_status, nroots, sp) ==
  LET d == davidson("dhf_internal", sp.int, nroots)
      cmp == Less(d.e, Threshold)
      unstable == Truth(cmp)
      mo == IF unstable THEN rotate_mo(mo_coeff(m), mo_occ(m), d.v)
            ELSE mo_coeff(m)
      log == <<Solve("dhf_internal", d.e), Note("internal", ~unstable)>>
             \o (IF unstable THEN <<Rotate(mo_coeff(m), mo_occ(m), d.v)>>
                 ELSE <<>>)
  IN IF ~HasTruth(cmp) THEN Raise("ValueError", <<Solve("dhf_internal", d.e)>>)
     ELSE Ok(IF return_status THEN Tuple(<<mo, Bool(~unstable)>>) ELSE mo, log)

\* mf.stability(return_status=...): the method of the SCF class of each
\* reference, with its defaults internal=True, external=False, STAB_NROOTS
stability(m, return_status, sp) ==
  CASE m.ref = "rhf" -> rhf_stability(m, TRUE, FALSE, return_status, STAB_NROOTS, sp)
    [] m.ref = "uhf" -> uhf_stability(m, TRUE, FALSE, return_status, STAB_NROOTS, sp)
    [] m.ref = "rohf" -> rohf_stability(m, TRUE, FALSE, return_status, STAB_NROOTS, sp)
    [] m.ref = "ghf" -> ghf_stability(m, return_status, STAB_NROOTS, sp)
    [] m.ref = "dhf" -> dhf_stability(m, return_status, STAB_NROOTS, sp)

\* _get_internal_stability_status, were it to pick the external slots
get_external_stability_status(res) ==
  IF PyLen(res) = 4 THEN Tuple(<<Item(res, 1), Item(res, 3)>>)
  ELSE IF PyLen(res) = 2 THEN res
  ELSE None

\* _get_internal_stability_status(mf), res the value mf.stability returned
get_internal_stability_status(res) ==
  IF PyLen(res) = 4 THEN Tuple(<<Item(res, 0), Item(res, 2)>>)
  ELSE IF PyLen(res) = 2 THEN res
  ELSE None

(***************************************************************************)
(* State: pc is the position of the single thread of control; call is the  *)
(* latest dispatcher call (arguments, spectra, result); num is the latest  *)
(* call of a closure or array construction of a channel; the others are    *)
(* the locals of stable_opt_internal and the trace of what it did.         *)
(***************************************************************************)
Flat(n) == [k \in 1..n |-> 0]

\* spectra of the channels a call consults; a channel it does not consult
\* is given the flat spectrum
Oracles(n, useInt, useR2c, useExt) ==
  [int : IF useInt THEN Spectra(n) ELSE {Flat(n)},
   r2c : IF useR2c THEN Spectra(n) ELSE {Flat(n)},
   ext : IF useExt THEN Spectra(n) ELSE {Flat(n)}]

\* spectra consulted by mf.stability() with the default flags
QueryOracles(m) ==
  Oracles(STAB_NROOTS, TRUE, m.ref = "ghf" /\ ~is_complex(m), FALSE)

CallRec(fn, m, internal, external, return_status, nroots, sp, res) ==
  [fn |-> fn, mf |-> m, internal |-> internal, external |-> external,
   return_status |-> return_status, nroots |-> nroots, sp |-> sp, res |-> res]

NoCall ==
  CallRec("none", Solution("rhf", 0, "float64", 0), FALSE, FALSE, FALSE, 1,
          [int |-> Flat(1), r2c |-> Flat(1), ext |-> Flat(1)], Skip)

\* no closure of a channel has been called
NoNum == [fn |-> "none"]

Init ==
  /\ pc = "idle"
  /\ call = NoCall
  /\ mf = Solution("rhf", 0, "float64", 0)
  /\ mo1 = None
  /\ stable = None
  /\ cyc = 0
  /\ max_attempt = 0
  /\ dm1 = None
  /\ trace = <<>>
  /\ num = NoNum

DriverLocals == <<mf, mo1, stable, cyc, max_attempt, dm1, trace>>

\* a direct call of rhf_stability
CallRhfStability ==
  /\ pc = "idle"
  /\ \E internal \in BOOLEAN, external \in BOOLEAN, rs \in BOOLEAN, n \in NRoots :
       \E sp \in Oracles(n, internal, external, external) :
         call' = CallRec("rhf_stability", Solution("rhf", 0, "float64", 0),
                         internal, external, rs, n, sp,
                         rhf_stability(Solution("rhf", 0, "float64", 0),
                                       internal, external, rs, n, sp))
  /\ pc' = "returned"
  /\ UNCHANGED <<DriverLocals, num>>

\* a direct call of uhf_stability
CallUhfStability ==
  /\ pc = "idle"
  /\ \E internal \in BOOLEAN, external \in BOOLEAN, rs \in BOOLEAN, n \in NRoots :
       \E sp \in Oracles(n, internal, external, external) :
         call' = CallRec("uhf_stability", Solution("uhf", 0, "float64", 0),
                         internal, external, rs, n, sp,
                         uhf_stability(Solution("uhf", 0, "float64", 0),
                                       internal, external, rs, n, sp))
  /\ pc' = "returned"
  /\ UNCHANGED <<DriverLocals, num>>

\* a direct call of rohf_stability
CallRohfStability ==
  /\ pc = "idle"
  /\ \E internal \in BOOLEAN, external \in BOOLEAN, rs \in BOOLEAN, n \in NRoots :
       \E sp \in Oracles(n, internal, FALSE, FALSE) :
         call' = CallRec("rohf_stability", Solution("rohf", 0, "float64", 0),
                         internal, external, rs, n, sp,
                         rohf_stability(Solution("rohf", 0, "float64", 0),
                                        internal, external, rs, n, sp))
  /\ pc' = "returned"
  /\ UNCHANGED <<DriverLocals, num>>

\* a direct call of ghf_stability
CallGhfStability ==
  /\ pc = "idle"
  /\ \E m \in Solutions("ghf", 0), rs \in BOOLEAN, n \in NRoots :
       \E sp \in Oracles(n, TRUE, ~is_complex(m), FALSE) :
         call' = CallRec("ghf_stability", m, TRUE, FALSE, rs, n, sp,
                         ghf_stability(m, rs, n, sp))
  /\ pc' = "returned"
  /\ UNCHANGED <<DriverLocals, num>>

\* a direct call of dhf_stability
CallDhfStability ==
  /\ pc = "idle"
  /\ \E rs \in BOOLEAN, n \in NRoots :
       \E sp \in Oracles(n, TRUE, FALSE, FALSE) :
         call' = CallRec("dhf_stability", Solution("dhf", 0, "float64", 0),
                         TRUE, FALSE, rs, n, sp,
                         dhf_stability(Solution("dhf", 0, "float64", 0), rs, n, sp))
  /\ pc' = "returned"
  /\ UNCHANGED <<DriverLocals, num>>

(***************************************************************************)
(* stable_opt_internal(mf, max_attempt)                                    *)
(***************************************************************************)
Query(m, mo, s) == [op |-> "query", on |-> m.id, mo |-> mo, stable |-> s]
MakeRdm1(mo, occ) == [op |-> "make_rdm1", mo |-> mo, occ |-> occ]
Run(dm, id) == [op |-> "run", dm |-> dm, new |-> id]
Failed(n) == [op |-> "note_failed", n |-> n]

\* mo1, stable = _get_internal_stability_status(m): the query of lines 49
\* and 55, on solution m with spectra sp; an exception of the dispatcher,
\* or of unpacking a None, leaves the driver
DoQuery(m, sp) ==
  LET r == stability(m, TRUE, sp)
      st == get_internal_stability_status(r.ret)
  IN /\ call' = CallRec("stability", m, TRUE, FALSE, TRUE, STAB_NROOTS, sp, r)
     /\ IF r.status = "raise" \/ st = None
        THEN /\ pc' = "raised"
             /\ UNCHANGED <<mo1, stable, trace>>
        ELSE /\ pc' = "while"
             /\ mo1' = Item(st, 0)
             /\ stable' = Item(st, 1)
             /\ trace' = Append(trace, Query(m, Item(st, 0), Item(st, 1)))

\* the loop test, were it to admit one attempt too many
LoopCond_off_by_one == ~Truth(stable) /\ cyc <= max_attempt

\* line 51: while (not stable and cyc < max_attempt)
LoopCond == ~Truth(stable) /\ cyc < max_attempt

\* lines 48-50: the first query, cyc = 0
Enter ==
  /\ pc = "idle"
  /\ \E ref \in References, ma \in 0..MaxAttempt :
       \E m \in Solutions(ref, 0) :
         /\ mf' = m
         /\ max_attempt' = ma
         /\ \E sp \in QueryOracles(m) : DoQuery(m, sp)
  /\ cyc' = 0
  /\ UNCHANGED <<dm1, num>>

\* lines 51-53, were the density matrix built from the unrotated orbitals
LoopMakeRdm1_unrotated ==
  /\ pc = "while"
  /\ ~Truth(stable) /\ cyc < max_attempt
  /\ dm1' = make_rdm1(mo_coeff(mf), mo_occ(mf))
  /\ trace' = Append(trace, [op |-> "make_rdm1", mo |-> mo_coeff(mf), occ |-> mo_occ(mf)])
  /\ pc' = "run"
  /\ call' = call
  /\ UNCHANGED <<mf, mo1, stable, cyc, max_attempt, num>>

\* lines 51-53: the loop test holds; note the attempt, build the density
\* matrix from mo1 and the occupations of the current solution (the result
\* tuple of the last query is no longer held by anything)
LoopMakeRdm1 ==
  /\ pc = "while"
  /\ LoopCond
  /\ dm1' = make_rdm1(mo1, mo_occ(mf))
  /\ trace' = Append(trace, MakeRdm1(mo1, mo_occ(mf)))
  /\ pc' = "run"
  /\ call' = NoCall
  /\ UNCHANGED <<mf, mo1, stable, cyc, max_attempt, num>>

\* line 54: mf = mf.run(dm1), the next converged solution of the same
\* reference
LoopRun ==
  /\ pc = "run"
  /\ \E m \in Solutions(mf.ref, mf.id + 1) : mf' = m
  /\ trace' = Append(trace, Run(dm1, mf.id + 1))
  /\ pc' = "query"
  /\ UNCHANGED <<call, mo1, stable, cyc, max_attempt, dm1, num>>

\* lines 55-56: query the new solution, cyc += 1
LoopQuery ==
  /\ pc = "query"
  /\ \E sp \in QueryOracles(mf) : DoQuery(mf, sp)
  /\ cyc' = IF pc' = "raised" THEN cyc ELSE cyc + 1
  /\ UNCHANGED <<mf, max_attempt, dm1, num>>

\* lines 57-59, were the failure noted whenever the budget is used up
Exit_notes_on_budget ==
  /\ pc = "while"
  /\ ~(~Truth(stable) /\ cyc < max_attempt)
  /\ trace' = IF cyc >= max_attempt
              THEN Append(trace, [op |-> "note_failed", n |-> cyc]) ELSE trace
  /\ pc' = "done"
  /\ UNCHANGED <<call, mf, mo1, stable, cyc, max_attempt, dm1, num>>

\* lines 57-59: the loop test fails; note a failure when still unstable,
\* return mf
Exit ==
  /\ pc = "while"
  /\ ~LoopCond
  /\ trace' = IF ~Truth(stable) THEN Append(trace, Failed(cyc)) ELSE trace
  /\ pc' = "done"
  /\ UNCHANGED <<call, mf, mo1, stable, cyc, max_attempt, dm1, num>>

\* the caller takes the result (or the exception); the next call starts afresh
Return ==
  /\ pc \in {"returned", "done", "raised"}
  /\ pc' = "idle"
  /\ call' = NoCall
  /\ mf' = Solution("rhf", 0, "float64", 0)
  /\ mo1' = None
  /\ stable' = None
  /\ cyc' = 0
  /\ max_attempt' = 0
  /\ dm1' = None
  /\ trace' = <<>>
  /\ num' = NoNum

Next ==
  \/ CallRhfStability
  \/ CallUhfStability
  \/ CallRohfStability
  \/ CallGhfStability
  \/ CallDhfStability
  \/ Enter
  \/ LoopMakeRdm1
  \/ LoopRun
  \/ LoopQuery
  \/ Exit
  \/ Return

Spec == Init /\ [][Next]_vars

\* the driver alone: Python runs it to completion, so every step that is
\* enabled is eventually taken
DriverNext == Enter \/ LoopMakeRdm1 \/ LoopRun \/ LoopQuery \/ Exit \/ Return

DriverSpec == Init /\ [][DriverNext]_vars /\ WF_vars(LoopMakeRdm1 \/ LoopRun \/ LoopQuery \/ Exit)

(***************************************************************************)
(* The closures handed to the eigensolver, on concrete vectors.  A vector  *)
(* is a sequence of integers.  A quotient is kept as the pair it was       *)
(* computed from, so that a division by zero stays visible.  num is the    *)
(* latest call of such a closure or generator: its inputs and its result.  *)
(***************************************************************************)
\* length of the vectors handed to a preconditioner or seeded as a guess
VecLen == 2

\* the vectors of length n with entries in S
Vecs(S, n) == [1..n -> S]

\* a / b of numpy; den = 0 is a division by zero
Div(a, b) == [num |-> a, den |-> b]

Abs(x) == IF x < 0 THEN -x ELSE x

\* the floor 1e-8 of every preconditioner, in units of 1e-9
PrecondFloor == 10

\* Hessian diagonals, eigenvalue estimates and residuals handed to a
\* preconditioner, in units of 1e-9: the differences hdiag - e fall below,
\* on and above the floor, with either sign
PrecondDiagVals == {0, 9, 20}
PrecondShiftVals == {-1, 0, 10, 19, 30}
ResidualVals == {0, 3}

\* precond, were it to divide by hdiag - e as it is
precond_unfloored(hdiag, dx, e) ==
  [ret |-> [i \in DOMAIN dx |-> Div(dx[i], hdiag[i] - e)], hdiag |-> hdiag]

\* precond(dx, e, x0) of a channel whose Hessian diagonal is hdiag (the same
\* three lines in all eleven channels): hdiagd = hdiag - e is a new array,
\* its entries of magnitude below 1e-8 are overwritten, the result is
\* dx/hdiagd; hdiag is the captured diagonal after the call
precond(hdiag, dx, e) ==
  LET diff == [i \in DOMAIN hdiag |-> hdiag[i] - e]
      hdiagd == [i \in DOMAIN hdiag |->
                   IF Abs(diff[i]) < PrecondFloor THEN PrecondFloor ELSE diff[i]]
  IN [ret |-> [i \in DOMAIN dx |-> Div(dx[i], hdiagd[i])], hdiag |-> hdiag]

\* the eigensolver calls a preconditioner
CallPrecond ==
  /\ pc = "idle"
  /\ \E hdiag \in Vecs(PrecondDiagVals, VecLen),
        dx \in Vecs(ResidualVals, VecLen), e \in PrecondShiftVals :
       num' = [fn |-> "precond", hdiag |-> hdiag, dx |-> dx, e |-> e,
               out |-> precond(hdiag, dx, e)]
  /\ pc' = "returned"
  /\ UNCHANGED <<call, DriverLocals>>

\* the cutoff 1e-5 of the guesses of the external channels, in units of 1e-6
GuessCut == 10

\* entries of the gradient g, and of the Hessian diagonal as the generator
\* returns it, in units of 1e-6: negative, zero, below, on and above the
\* cutoff once doubled
GradVals == {0, 1}
GenDiagVals == {-10, 0, 3, 5, 10}

\* entries of the Hessian diagonal of an external channel, in units of 1e-6
ExtDiagVals == {-20, 0, 6, 10, 20}

Zero == Div(0, 1)
One == Div(1, 1)

\* numpy.argmin: the first index of the smallest entry
argmin(h) ==
  CHOOSE i \in DOMAIN h :
    \A j \in DOMAIN h : h[i] < h[j] \/ (h[i] = h[j] /\ i <= j)

\* x0 = numpy.zeros_like(g); x0[g!=0] = 1. / hdiag[g!=0]
seed_internal(g, hdiag) ==
  [i \in DOMAIN g |-> IF g[i] # 0 THEN Div(1, hdiag[i]) ELSE Zero]

\* x0 = numpy.zeros_like(hdiag1); x0[hdiag1>1e-5] = 1. / hdiag1[hdiag1>1e-5]
seed_external(hdiag) ==
  [i \in DOMAIN hdiag |-> IF hdiag[i] > GuessCut THEN Div(1, hdiag[i]) ELSE Zero]

\* x0[numpy.argmin(hdiag)] = 1
break_symmetry(x0, hdiag) == [x0 EXCEPT ![argmin(hdiag)] = One]

\* the channels seeded from the gradient mask, and from the diagonal cutoff
GradSeeded ==
  {"rhf_internal", "rohf_internal", "uhf_internal", "ghf_real_internal",
   "dhf_internal"}
DiagSeeded ==
  {"rhf_real2complex", "uhf_real2complex", "uhf_external", "ghf_real2complex",
   "ghf_complex_internal"}

\* the guess of a channel seeded from the gradient mask: gen is the diagonal
\* the generator returned, doubled in place before use; dhf_stability breaks
\* the symmetry whatever with_symmetry is
guess_internal(chan, g, gen, with_symmetry) ==
  LET hdiag == [i \in DOMAIN gen |-> 2 * gen[i]]
      x0 == seed_internal(g, hdiag)
  IN [hdiag |-> hdiag, seed |-> x0,
      x0 |-> IF chan = "dhf_internal" \/ ~with_symmetry
             THEN break_symmetry(x0, hdiag) ELSE x0]

\* the guess of a channel seeded from the diagonal cutoff; ghf_complex sets
\* with_symmetry = True itself
guess_external(chan, hdiag, with_symmetry) ==
  LET x0 == seed_external(hdiag)
      ws == chan = "ghf_complex_internal" \/ with_symmetry
  IN [hdiag |-> hdiag, seed |-> x0,
      x0 |-> IF ~ws THEN break_symmetry(x0, hdiag) ELSE x0]

\* the guess of the RHF -> UHF solve of rhf_external: x0 = v1, the
\* eigenvector of the real -> complex solve
guess_rhf2uhf(hdiag, v1) == [hdiag |-> hdiag, seed |-> v1, x0 |-> v1]

GuessRec(chan, g, with_symmetry, r) ==
  [fn |-> "guess", chan |-> chan, g |-> g, with_symmetry |-> with_symmetry,
   hdiag |-> r.hdiag, seed |-> r.seed, x0 |-> r.x0]

\* a channel seeded from the gradient mask builds its guess
CallGuessInternal ==
  /\ pc = "idle"
  /\ \E chan \in GradSeeded, g \in Vecs(GradVals, VecLen),
        gen \in Vecs(GenDiagVals, VecLen), ws \in BOOLEAN :
       num' = GuessRec(chan, g, ws, guess_internal(chan, g, gen, ws))
  /\ pc' = "returned"
  /\ UNCHANGED <<call, DriverLocals>>

\* a channel seeded from the diagonal cutoff builds its guess
CallGuessExternal ==
  /\ pc = "idle"
  /\ \E chan \in DiagSeeded, hdiag \in Vecs(ExtDiagVals, VecLen), ws \in BOOLEAN :
       num' = GuessRec(chan, <<>>, ws, guess_external(chan, hdiag, ws))
  /\ pc' = "returned"
  /\ UNCHANGED <<call, DriverLocals>>

\* rhf_external seeds its second solve with the eigenvector of the first
CallGuessRhf2Uhf ==
  /\ pc = "idle"
  /\ \E hdiag \in Vecs(ExtDiagVals, VecLen), v1 \in Vecs({Zero, One}, VecLen),
        ws \in BOOLEAN :
       num' = GuessRec("rhf_external", <<>>, ws, guess_rhf2uhf(hdiag, v1))
  /\ pc' = "returned"
  /\ UNCHANGED <<call, DriverLocals>>

\* number of spatial orbitals of a spin channel (columns of mo_coeff)
NMo == 3

RECURSIVE Ascending(_)
\* the elements of a set of integers in ascending order
Ascending(S) ==
  IF S = {} THEN <<>>
  ELSE LET m == CHOOSE x \in S : \A y \in S : x <= y
       IN <<m>> \o Ascending(S \ {m})

\* numpy.where(mo_occ == n)[0], numpy.where(mo_occ > 0)[0]: the indices
\* (from 1) of the orbitals whose occupation is in vals, ascending
where(occ, vals) == Ascending({p \in DOMAIN occ : occ[p] \in vals})

\* occupation vectors of one spin channel of a UHF solution
UhfOccs == Vecs({0, 1}, NMo)

\* column p (from 1) of mo_coeff[0] ("a") or mo_coeff[1] ("b"), mixed or not
\* with other columns by a rotation
Column(s, p, rot) == [s |-> s, p |-> p, rot |-> rot]

\* scipy.linalg.block_diag(*mf.mo_coeff): the alpha columns, then the beta
\* columns
block_diag(nmo) ==
  [k \in 1..(2 * nmo) |->
     IF k <= nmo THEN Column("a", k, FALSE) ELSE Column("b", k - nmo, FALSE)]

\* the columns that dx - dx.conj().T couples: alpha virtuals with beta
\* occupieds, beta virtuals with alpha occupieds (lines 674-675)
coupled(occa, occb) ==
  LET nmo == Len(occa)
      occidxa == where(occa, {1})
      viridxa == where(occa, {0})
      occidxb == where(occb, {1})
      viridxb == where(occb, {0})
  IN (IF Len(viridxa) * Len(occidxb) = 0 THEN {}
      ELSE {viridxa[a] : a \in DOMAIN viridxa}
             \cup {nmo + occidxb[i] : i \in DOMAIN occidxb})
       \cup
     (IF Len(viridxb) * Len(occidxa) = 0 THEN {}
      ELSE {nmo + viridxb[a] : a \in DOMAIN viridxb}
             \cup {occidxa[i] : i \in DOMAIN occidxa})

\* numpy.dot(mo, u), u = expmat(dx - dx.conj().T): column k stays the
\* orbital of column k, mixed with the columns it is coupled to
rotate_columns(mo, K) == [k \in DOMAIN mo |-> [mo[k] EXCEPT !.rot = k \in K]]

\* mo[:, i:j] of numpy, i and j counted from 0
cols(mo, i, j) == SubSeq(mo, i + 1, j)

\* the orbitals uhf_external returns (lines 663-680): block_diag as it is
\* when stable; when unstable rotated, then re-partitioned by position, the
\* first nocca columns of the alpha block, the first noccb of the beta block,
\* the rest of the alpha block, the rest of the beta block
uhf_external_mo(occa, occb, st) ==
  LET nocca == Len(where(occa, {1}))
      nvira == Len(where(occa, {0}))
      noccb == Len(where(occb, {1}))
      nmo == nocca + nvira
      mo == block_diag(nmo)
      mo_rot == rotate_columns(mo, coupled(occa, occb))
  IN IF st THEN mo
     ELSE cols(mo_rot, 0, nocca) \o cols(mo_rot, nmo, nmo + noccb)
            \o cols(mo_rot, nocca, nmo) \o cols(mo_rot, nmo + noccb, 2 * nmo)

\* uhf_external builds the orbitals it returns
CallUhfExternalMo ==
  /\ pc = "idle"
  /\ \E occa \in UhfOccs, occb \in UhfOccs, st \in BOOLEAN :
       /\ st \/ coupled(occa, occb) # {}
       /\ num' = [fn |-> "uhf_external_mo", mo_occ |-> <<occa, occb>>,
                  stable |-> st, mo |-> uhf_external_mo(occa, occb, st)]
  /\ pc' = "returned"
  /\ UNCHANGED <<call, DriverLocals>>

(***************************************************************************)
(* The Hessian-vector operators of the external channels.  A 2-D array of  *)
(* nrow x ncol entries is kept ravelled, row by row, as numpy keeps it.    *)
(***************************************************************************)
RECURSIVE SumSeq(_)
SumSeq(s) == IF s = <<>> THEN 0 ELSE Head(s) + SumSeq(Tail(s))

\* row and column (from 1) of entry k of a ravelled array of ncol columns
Row(k, ncol) == ((k - 1) \div ncol) + 1
Col(k, ncol) == ((k - 1) % ncol) + 1

\* x.reshape(nrow, ncol)[a, i]
At(x, a, i, ncol) == x[(a - 1) * ncol + i]

\* the Fock matrix in the orbital basis: orbital energies on the diagonal,
\* the coupling c between any two orbitals
Fock(nmo, c, shift) ==
  [p \in 1..nmo |-> [q \in 1..nmo |-> IF p = q THEN p + shift ELSE c]]

\* symmetry labels of the orbitals of one spin channel, for a point group of
\* two irreducible representations; the first orbital has label 0
OrbSyms == {s \in Vecs({0, 1}, NMo) : s[1] = 0}

\* occupations of a spin channel with the occupied orbitals lowest
AufbauOccs == {[p \in 1..NMo |-> IF p <= n THEN 1 ELSE 0] : n \in 0..NMo}

\* coupling strengths of the Fock matrix and of the response kernel
Couplings == {0, 1}

\* (orbsymv[viridx].reshape(-1,1) != orbsymo[occidx]).ravel()
sym_forbid(orbsymv, viridx, orbsymo, occidx) ==
  [k \in 1..(Len(viridx) * Len(occidx)) |->
     orbsymv[viridx[Row(k, Len(occidx))]] # orbsymo[occidx[Col(k, Len(occidx))]]]

\* no entry is masked when with_symmetry and mol.symmetry is false
no_forbid(n) == [k \in 1..n |-> FALSE]

\* x[sym_forbid] = 0
zero_forbidden(x, forbid) == [k \in DOMAIN x |-> IF forbid[k] THEN 0 ELSE x[k]]

\* (fvv.diagonal().reshape(-1,1) - foo.diagonal()).ravel()
fock_diff(fockv, viridx, focko, occidx) ==
  [k \in 1..(Len(viridx) * Len(occidx)) |->
     LET v == viridx[Row(k, Len(occidx))]
         o == occidx[Col(k, Len(occidx))]
     IN fockv[v][v] - focko[o][o]]

\* einsum('ps,sq->pq', fvv, x1) - einsum('ps,rp->rs', foo, x1), ravelled
fock_part(fockv, viridx, focko, occidx, x) ==
  LET nocc == Len(occidx)
      nvir == Len(viridx)
  IN [k \in 1..(nvir * nocc) |->
        LET a == Row(k, nocc)
            i == Col(k, nocc)
        IN SumSeq([s \in 1..nvir |->
                     fockv[viridx[a]][viridx[s]] * At(x, s, i, nocc)])
             - SumSeq([p \in 1..nocc |->
                         focko[occidx[p]][occidx[i]] * At(x, a, p, nocc)])]

\* orbv.conj().T . vresp(dm1) . orbo of a response kernel of strength c: a
\* linear map of the trial vector that couples every pair to every pair
response(c, x, n) == [k \in 1..n |-> c * SumSeq(x)]

Plus(x, y) == [k \in DOMAIN x |-> x[k] + y[k]]
Scaled(f, x) == [k \in DOMAIN x |-> f * x[k]]

\* entry k of a ravelled nvir x nocc block: its virtual and occupied orbital
Pairs(sv, viridx, so, occidx) ==
  [k \in 1..(Len(viridx) * Len(occidx)) |->
     [vs |-> sv, v |-> viridx[Row(k, Len(occidx))],
      os |-> so, o |-> occidx[Col(k, Len(occidx))]]]

\* the body shared by hop_real2complex and hop_rhf2uhf of
\* _gen_hop_rhf_external and by hop_real2complex of
\* _gen_hop_ghf_real2complex; f is the factor of x1 in d1 (2 for RHF)
hop_vo_unmasked_output(fock, viridx, occidx, forbid, c, f, x1) ==
  LET x1m == zero_forbidden(x1, forbid)
  IN Plus(fock_part(fock, viridx, fock, occidx, x1m),
          response(c, Scaled(f, x1m), Len(x1)))

hop_vo(fock, viridx, occidx, forbid, c, f, x1) ==
  LET x1m == zero_forbidden(x1, forbid)
      x2 == Plus(fock_part(fock, viridx, fock, occidx, x1m),
                 response(c, Scaled(f, x1m), Len(x1)))
  IN zero_forbidden(x2, forbid)

\* _gen_hop_rhf_external(mf, with_symmetry): sym is with_symmetry and
\* mol.symmetry; both operators are paired with the same hdiag
gen_hop_rhf_external(occ, orbsym, sym, c) ==
  LET occidx == where(occ, {2})
      viridx == where(occ, {0})
      fock == Fock(Len(occ), c, 0)
      forbid == IF sym THEN sym_forbid(orbsym, viridx, orbsym, occidx)
                ELSE no_forbid(Len(viridx) * Len(occidx))
  IN [fock |-> fock, occidx |-> occidx, viridx |-> viridx, forbid |-> forbid,
      pairs |-> Pairs(1, viridx, 1, occidx),
      hdiag |-> zero_forbidden(fock_diff(fock, viridx, fock, occidx), forbid)]

rhf_hop_real2complex(occ, orbsym, sym, c, x1) ==
  LET gen == gen_hop_rhf_external(occ, orbsym, sym, c)
  IN hop_vo(gen.fock, gen.viridx, gen.occidx, gen.forbid, c, 2, x1)

hop_rhf2uhf(occ, orbsym, sym, c, x1) ==
  LET gen == gen_hop_rhf_external(occ, orbsym, sym, c)
  IN hop_vo(gen.fock, gen.viridx, gen.occidx, gen.forbid, c, 2, x1)

\* _gen_hop_ghf_real2complex(mf, with_symmetry)
gen_hop_ghf_real2complex(occ, orbsym, sym, c) ==
  LET occidx == where(occ, {1})
      viridx == where(occ, {0})
      fock == Fock(Len(occ), c, 0)
      forbid == IF sym THEN sym_forbid(orbsym, viridx, orbsym, occidx)
                ELSE no_forbid(Len(viridx) * Len(occidx))
  IN [fock |-> fock, occidx |-> occidx, viridx |-> viridx, forbid |-> forbid,
      pairs |-> Pairs(1, viridx, 1, occidx),
      hdiag |-> zero_forbidden(fock_diff(fock, viridx, fock, occidx), forbid)]

ghf_hop_real2complex(occ, orbsym, sym, c, x1) ==
  LET gen == gen_hop_ghf_real2complex(occ, orbsym, sym, c)
  IN hop_vo(gen.fock, gen.viridx, gen.occidx, gen.forbid, c, 1, x1)

\* _gen_hop_uhf_external(mf, with_symmetry): mo_occ and orbsym are pairs
\* (alpha, beta); hdiag1 and the mask sym_forbid1 go with hop_real2complex,
\* hdiag2 and sym_forbid2 with hop_uhf2ghf
gen_hop_uhf_external(occ, orbsym, sym, c) ==
  LET occidxa == where(occ[1], {1})
      occidxb == where(occ[2], {1})
      viridxa == where(occ[1], {0})
      viridxb == where(occ[2], {0})
      focka == Fock(Len(occ[1]), c, 0)
      fockb == Fock(Len(occ[2]), c, 1)
      n1 == Len(viridxa) * Len(occidxa) + Len(viridxb) * Len(occidxb)
      n2 == Len(viridxa) * Len(occidxb) + Len(viridxb) * Len(occidxa)
      sym_forbid1 ==
        IF sym THEN sym_forbid(orbsym[1], viridxa, orbsym[1], occidxa)
                      \o sym_forbid(orbsym[2], viridxb, orbsym[2], occidxb)
        ELSE no_forbid(n1)
      sym_forbid2 ==
        IF sym THEN sym_forbid(orbsym[1], viridxa, orbsym[2], occidxb)
                      \o sym_forbid(orbsym[2], viridxb, orbsym[1], occidxa)
        ELSE no_forbid(n2)
  IN [focka |-> focka, fockb |-> fockb,
      occidxa |-> occidxa, occidxb |-> occidxb,
      viridxa |-> viridxa, viridxb |-> viridxb,
      sym_forbid1 |-> sym_forbid1, sym_forbid2 |-> sym_forbid2,
      pairs1 |-> Pairs(1, viridxa, 1, occidxa) \o Pairs(2, viridxb, 2, occidxb),
      pairs2 |-> Pairs(1, viridxa, 2, occidxb) \o Pairs(2, viridxb, 1, occidxa),
      hdiag1 |-> zero_forbidden(fock_diff(focka, viridxa, focka, occidxa)
                                  \o fock_diff(fockb, viridxb, fockb, occidxb),
                                sym_forbid1),
      hdiag2 |-> zero_forbidden(fock_diff(focka, viridxa, fockb, occidxb)
                                  \o fock_diff(fockb, viridxb, focka, occidxa),
                                sym_forbid2)]

\* hop_real2complex of _gen_hop_uhf_external: x1 is split at nvira*nocca
uhf_hop_real2complex(occ, orbsym, sym, c, x1) ==
  LET gen == gen_hop_uhf_external(occ, orbsym, sym, c)
      na == Len(gen.viridxa) * Len(gen.occidxa)
      x1m == zero_forbidden(x1, gen.sym_forbid1)
      x1a == SubSeq(x1m, 1, na)
      x1b == SubSeq(x1m, na + 1, Len(x1m))
      x2a == Plus(fock_part(gen.focka, gen.viridxa, gen.focka, gen.occidxa, x1a),
                  response(c, x1m, Len(x1a)))
      x2b == Plus(fock_part(gen.fockb, gen.viridxb, gen.fockb, gen.occidxb, x1b),
                  response(c, x1m, Len(x1b)))
  IN zero_forbidden(x2a \o x2b, gen.sym_forbid1)

\* hop_uhf2ghf of _gen_hop_uhf_external: x1 is split at nvira*noccb
hop_uhf2ghf(occ, orbsym, sym, c, x1) ==
  LET gen == gen_hop_uhf_external(occ, orbsym, sym, c)
      nab == Len(gen.viridxa) * Len(gen.occidxb)
      x1m == zero_forbidden(x1, gen.sym_forbid2)
      x1ab == SubSeq(x1m, 1, nab)
      x1ba == SubSeq(x1m, nab + 1, Len(x1m))
      x2ab == Plus(fock_part(gen.focka, gen.viridxa, gen.fockb, gen.occidxb, x1ab),
                   response(c, x1m, Len(x1ab)))
      x2ba == Plus(fock_part(gen.fockb, gen.viridxb, gen.focka, gen.occidxa, x1ba),
                   response(c, x1m, Len(x1ba)))
  IN zero_forbidden(x2ab \o x2ba, gen.sym_forbid2)

\* trial vectors of the eigensolver for an operator of dimension n: the unit
\* vectors, which span the space, the vector supported on the masked entries,
\* the one supported on the others, and the vector of ones
Trials(forbid) ==
  LET n == Len(forbid)
  IN {[k \in 1..n |-> IF k = j THEN 1 ELSE 0] : j \in 1..n}
       \cup {[k \in 1..n |-> IF forbid[k] THEN 1 ELSE 0],
             [k \in 1..n |-> IF forbid[k] THEN 0 ELSE 1],
             [k \in 1..n |-> 1]}

HopRec(gen, op, occ, orbsym, ws, ms, c, pairs, hdiag, x1, x2) ==
  [fn |-> "hop", gen |-> gen, op |-> op, mo_occ |-> occ, orbsym |-> orbsym,
   with_symmetry |-> ws, symmetry |-> ms, c |-> c, pairs |-> pairs,
   hdiag |-> hdiag, x1 |-> x1, x2 |-> x2]

\* the eigensolver applies an operator of _gen_hop_rhf_external
CallHopRhf ==
  /\ pc = "idle"
  /\ \E occ \in Vecs({0, 2}, NMo), orbsym \in OrbSyms, ws \in BOOLEAN,
        ms \in BOOLEAN, c \in Couplings :
       LET gen == gen_hop_rhf_external(occ, orbsym, ws /\ ms, c)
       IN \E x1 \in Trials(sym_forbid(orbsym, gen.viridx, orbsym, gen.occidx)),
             op \in {"real2complex", "rhf2uhf"} :
            num' = HopRec("rhf", op, occ, orbsym, ws, ms, c, gen.pairs,
                          gen.hdiag, x1,
                          IF op = "real2complex"
                          THEN rhf_hop_real2complex(occ, orbsym, ws /\ ms, c, x1)
                          ELSE hop_rhf2uhf(occ, orbsym, ws /\ ms, c, x1))
  /\ pc' = "returned"
  /\ UNCHANGED <<call, DriverLocals>>

\* the eigensolver applies the operator of _gen_hop_ghf_real2complex
CallHopGhf ==
  /\ pc = "idle"
  /\ \E occ \in Vecs({0, 1}, NMo), orbsym \in OrbSyms, ws \in BOOLEAN,
        ms \in BOOLEAN, c \in Couplings :
       LET gen == gen_hop_ghf_real2complex(occ, orbsym, ws /\ ms, c)
       IN \E x1 \in Trials(sym_forbid(orbsym, gen.viridx, orbsym, gen.occidx)) :
            num' = HopRec("ghf", "real2complex", occ, orbsym, ws, ms, c,
                          gen.pairs, gen.hdiag, x1,
                          ghf_hop_real2complex(occ, orbsym, ws /\ ms, c, x1))
  /\ pc' = "returned"
  /\ UNCHANGED <<call, DriverLocals>>

\* the eigensolver applies an operator of _gen_hop_uhf_external, for a
\* solution with the occupied orbitals lowest in each spin channel; the beta
\* labels are the alpha ones or their opposites
CallHopUhf ==
  /\ pc = "idle"
  /\ \E occa \in AufbauOccs, occb \in AufbauOccs, orbsyma \in OrbSyms, flip \in BOOLEAN,
        ws \in BOOLEAN, ms \in BOOLEAN, op \in {"real2complex", "uhf2ghf"} :
       LET occ == <<occa, occb>>
           orbsymb == [p \in DOMAIN orbsyma |->
                         IF flip THEN 1 - orbsyma[p] ELSE orbsyma[p]]
           orbsym == <<orbsyma, orbsymb>>
           gen == gen_hop_uhf_external(occ, orbsym, ws /\ ms, 1)
           masked == gen_hop_uhf_external(occ, orbsym, TRUE, 1)
       IN IF op = "real2complex"
          THEN \E x1 \in Trials(masked.sym_forbid1) :
                 num' = HopRec("uhf", op, occ, orbsym, ws, ms, 1, gen.pairs1,
                               gen.hdiag1, x1,
                               uhf_hop_real2complex(occ, orbsym, ws /\ ms, 1, x1))
          ELSE \E x1 \in Trials(masked.sym_forbid2) :
                 num' = HopRec("uhf", op, occ, orbsym, ws, ms, 1, gen.pairs2,
                               gen.hdiag2, x1,
                               hop_uhf2ghf(occ, orbsym, ws /\ ms, 1, x1))
  /\ pc' = "returned"
  /\ UNCHANGED <<call, DriverLocals>>

(***************************************************************************)
(* The eigenvector a channel hands to its rotation step.  The eigensolver  *)
(* returns vectors of the length of the guess x0, which is zeros_like(g)   *)
(* or zeros_like(hdiag).                                                   *)
(***************************************************************************)
\* hf.uniq_var_indices(mo_occ), counted: the pairs (p, q) that
\* hf.unpack_uniq_var fills from dx, p virtual and q occupied in the alpha
\* or in the beta sense
uniq_var_count(occ) ==
  Cardinality({pq \in (DOMAIN occ) \X (DOMAIN occ) :
                 \/ occ[pq[1]] = 0 /\ occ[pq[2]] > 0
                 \/ occ[pq[1]] # 2 /\ occ[pq[2]] = 2})

\* len(g) of newton_ah.gen_g_hop_rhf / _rohf / _ghf / _dhf: the gradient
\* packed over the unique pairs
gen_g_len(occ) == uniq_var_count(occ)

\* len(g) of newton_ah.gen_g_hop_uhf: the alpha pairs, then the beta pairs
gen_g_uhf_len(occ) == uniq_var_count(occ[1]) + uniq_var_count(occ[2])

\* hdiag of _gen_hop_ghf_complex_internal on a molecule without symmetry
\* labels: fvv.diagonal() - foo.diagonal()[:,None] has nocc rows and nvir
\* columns, and hdiag is hstack((hdiag.ravel(), hdiag.ravel().conj()))
ghf_complex_hdiag(occ) ==
  LET occidx == where(occ, {1})
      viridx == where(occ, {0})
      half == [k \in 1..(Len(occidx) * Len(viridx)) |->
                 viridx[Col(k, Len(viridx))] - occidx[Row(k, Len(viridx))]]
  IN half \o half

\* len(v[:k]) and len(v[k:]) for a vector of n entries
len_upto(n, k) == IF k < n THEN k ELSE n
len_from(n, k) == IF k < n THEN n - k ELSE 0

\* a vector of len entries handed to a rotation step together with the
\* occupation occ, which takes pairs entries
Handed(len, occ, pairs) == [len |-> len, occ |-> occ, pairs |-> pairs]

\* what each channel hands to _rotate_mo, or to the reshape of uhf_external,
\* when it is unstable
rotation_args(chan, occ) ==
  CASE chan \in {"rhf_internal", "rohf_internal", "ghf_real_internal",
                 "dhf_internal"} ->
         <<Handed(gen_g_len(occ), occ, uniq_var_count(occ))>>
    [] chan = "rhf_external" ->
         <<Handed(Len(gen_hop_rhf_external(occ, [p \in DOMAIN occ |-> 0],
                                           FALSE, 0).hdiag),
                  occ, uniq_var_count(occ))>>
    [] chan = "ghf_complex_internal" ->
         <<Handed(Len(ghf_complex_hdiag(occ)), occ, uniq_var_count(occ))>>
    [] chan = "uhf_internal" ->
         LET n == gen_g_uhf_len(occ)
             k == Len(where(occ[1], {1})) * Len(where(occ[1], {0}))
         IN <<Handed(len_upto(n, k), occ[1], uniq_var_count(occ[1])),
              Handed(len_from(n, k), occ[2], uniq_var_count(occ[2]))>>
    [] chan = "uhf_external" ->
         LET gen == gen_hop_uhf_external(occ, <<[p \in DOMAIN occ[1] |-> 0],
                                               [p \in DOMAIN occ[2] |-> 0]>>,
                                         FALSE, 0)
             n == Len(gen.hdiag2)
             nocca == Len(where(occ[1], {1}))
             nvira == Len(where(occ[1], {0}))
             noccb == Len(where(occ[2], {1}))
             nvirb == Len(where(occ[2], {0}))
         IN <<Handed(len_upto(n, nvira * noccb), occ, nvira * noccb),
              Handed(len_from(n, nvira * noccb), occ, nvirb * nocca)>>

\* the occupation vectors of the solutions a channel is run on
OccsOf(chan) ==
  CASE chan \in {"rhf_internal", "rhf_external"} -> Vecs({0, 2}, NMo)
    [] chan = "rohf_internal" -> Vecs({0, 1, 2}, NMo)
    [] chan \in {"ghf_real_internal", "ghf_complex_internal", "dhf_internal"} ->
         Vecs({0, 1}, NMo)
    [] chan \in {"uhf_internal", "uhf_external"} -> UhfOccs \X UhfOccs

RotatingChans ==
  {"rhf_internal", "rohf_internal", "ghf_real_internal", "dhf_internal",
   "rhf_external", "ghf_complex_internal", "uhf_internal", "uhf_external"}

\* an unstable channel hands its eigenvector to the rotation step; a channel
\* without any pair has no eigenvalue to be unstable
CallRotation ==
  /\ pc = "idle"
  /\ \E chan \in RotatingChans :
       \E occ \in OccsOf(chan) :
         LET args == rotation_args(chan, occ)
         IN /\ \E i \in DOMAIN args : args[i].len > 0
            /\ num' = [fn |-> "rotation", chan |-> chan, mo_occ |-> occ,
                       args |-> args]
  /\ pc' = "returned"
  /\ UNCHANGED <<call, DriverLocals>>

\* the preconditioners, guesses and orbital assembly alone
NumNext ==
  \/ CallPrecond
  \/ CallGuessInternal
  \/ CallGuessExternal
  \/ CallGuessRhf2Uhf
  \/ CallUhfExternalMo
  \/ CallRotation
  \/ Return

NumSpec == Init /\ [][NumNext]_vars

\* the Hessian-vector operators alone
HopNext ==
  \/ CallHopRhf
  \/ CallHopUhf
  \/ CallHopGhf
  \/ Return

HopSpec == Init /\ [][HopNext]_vars

(***************************************************************************)
(* Reading a call record                                                   *)
(***************************************************************************)
Called == call.fn # "none"
CallLog == call.res.log
Returned == Called /\ call.res.status = "ok"

\* the lowest eigenvalue of what a solve returned
Lowest(e) == IF e.t = "scalar" THEN e.x ELSE e.xs[1]

InternalChans ==
  {"rhf_internal", "rohf_internal", "uhf_internal", "ghf_real_internal",
   "ghf_complex_internal", "dhf_internal"}

\* the solves behind the external flag of rhf_stability and uhf_stability
FlaggedExternalChans ==
  {"rhf_real2complex", "rhf_external", "uhf_real2complex", "uhf_external"}

\* every solve of a channel that leaves the reference's own variational space
ExternalChans == FlaggedExternalChans \cup {"ghf_real2complex"}

\* the call has the (internal, external) result shape of rhf/uhf/rohf
FlagDispatcher == call.mf.ref \in {"rhf", "uhf", "rohf"}

\* the part of the log written by the internal channel
InternalLog ==
  LET ext == {i \in 1..Len(CallLog) :
                CallLog[i].ev = "davidson" /\ CallLog[i].chan \notin InternalChans}
      k == IF ext = {} THEN Len(CallLog) + 1
           ELSE CHOOSE i \in ext : \A j \in ext : i <= j
  IN SubSeq(CallLog, 1, k - 1)

InternalRan == call.internal /\ (FlagDispatcher \/ call.mf.ref \in {"ghf", "dhf"})

\* the orbitals a returned call gives for the internal channel
InternalMo ==
  IF FlagDispatcher THEN Item(call.res.ret, 0)
  ELSE IF call.return_status THEN Item(call.res.ret, 0)
  ELSE call.res.ret

\* the verdict a returned call gives for the internal channel
InternalVerdict ==
  IF FlagDispatcher THEN Item(call.res.ret, 2) ELSE Item(call.res.ret, 1)

(***************************************************************************)
(* C1: in every channel of every reference the verdict is                  *)
(* stable = not (lowest eigenvalue < -1e-5): every eigen-solve of a call   *)
(* is followed by the status note of that verdict, and the verdicts a call *)
(* returns are those of the lowest eigenvalues of its channels.            *)
(***************************************************************************)
C1_VerdictIsThreshold ==
  Called =>
    /\ \A i \in 1..Len(CallLog) :
         CallLog[i].ev = "davidson" =>
           /\ i < Len(CallLog)
           /\ CallLog[i + 1].ev = "note"
           /\ CallLog[i + 1].stable = ~(Lowest(CallLog[i].e) < Threshold)
    /\ (Returned /\ call.return_status /\ InternalRan) =>
         InternalVerdict = Bool(~(call.sp.int[1] < Threshold))
    /\ (Returned /\ call.return_status /\ FlagDispatcher /\ call.external) =>
         Item(call.res.ret, 3) = Bool(~(call.sp.ext[1] < Threshold))

\* C1 for every call but dhf_stability with more than one root
C1_VerdictIsThreshold_ExceptDhfRoots ==
  (call.mf.ref = "dhf" /\ call.nroots # 1) \/ C1_VerdictIsThreshold

(***************************************************************************)
(* C4: rohf_stability with external=True ends in NotImplementedError for   *)
(* every value of the internal and return_status flags and returns no      *)
(* result tuple.                                                           *)
(***************************************************************************)
C4_RohfExternalRaises ==
  (call.fn = "rohf_stability" /\ call.external) =>
    /\ call.res.status = "raise"
    /\ call.res.exc = "NotImplementedError"
    /\ call.res.ret = None

C4_Witness ==
  /\ call.fn = "rohf_stability" /\ call.external
  /\ call.internal /\ ~call.return_status
  /\ call.res.exc = "NotImplementedError"
  /\ Len(CallLog) > 0

(***************************************************************************)
(* C5: rhf/uhf/rohf_stability return 2 elements without return_status and  *)
(* 4 with it; a disabled channel runs no eigen-solve and its orbital and   *)
(* verdict slots are None; the slots of an enabled channel are not None.   *)
(***************************************************************************)
C5_TupleShape ==
  (Returned /\ FlagDispatcher) =>
    LET r == call.res.ret
        rs == call.return_status
    IN /\ r.t = "tuple"
       /\ PyLen(r) = IF rs THEN 4 ELSE 2
       /\ ~call.internal =>
            /\ Item(r, 0) = None
            /\ rs => Item(r, 2) = None
            /\ \A i \in 1..Len(CallLog) :
                 CallLog[i].ev = "davidson" => CallLog[i].chan \notin InternalChans
       /\ ~call.external =>
            /\ Item(r, 1) = None
            /\ rs => Item(r, 3) = None
            /\ \A i \in 1..Len(CallLog) :
                 CallLog[i].ev = "davidson" => CallLog[i].chan \in InternalChans
       /\ call.internal => (Item(r, 0) # None /\ (rs => Item(r, 2) # None))
       /\ call.external => (Item(r, 1) # None /\ (rs => Item(r, 3) # None))

C5_Witness ==
  /\ Returned /\ call.fn = "uhf_stability"
  /\ ~call.internal /\ call.external /\ call.return_status
  /\ PyLen(call.res.ret) = 4
  /\ Item(call.res.ret, 0) = None /\ Item(call.res.ret, 1) # None

(***************************************************************************)
(* C6: in the internal channel of every reference a stable verdict returns *)
(* exactly mf.mo_coeff, and _rotate_mo is invoked if and only if the       *)
(* verdict is unstable.                                                    *)
(***************************************************************************)
InternalNotes ==
  {i \in 1..Len(InternalLog) :
     InternalLog[i].ev = "note" /\ InternalLog[i].chan = "internal"}

InternalRotations ==
  {i \in 1..Len(InternalLog) : InternalLog[i].ev = "rotate"}

C6_StableKeepsOrbitals ==
  \A i \in InternalNotes :
    LET st == InternalLog[i].stable
    IN /\ st <=> (InternalRotations = {})
       /\ Returned =>
            /\ st => InternalMo = mo_coeff(call.mf)
            /\ ~st => InternalMo # mo_coeff(call.mf)

C6_Witness ==
  /\ Returned /\ call.fn = "dhf_stability" /\ call.nroots = 1
  /\ \E i \in InternalNotes : InternalLog[i].stable
  /\ InternalMo = mo_coeff(call.mf)

(***************************************************************************)
(* C7: every dispatcher, dhf_stability included, uses the solver's scalar  *)
(* and vector directly for one root and element 0 of the eigenvalue        *)
(* sequence and its eigenvector otherwise; none compares the whole         *)
(* sequence with the threshold or rotates by the whole eigenvector list.   *)
(***************************************************************************)
C7_LowestRootDecides ==
  Called =>
    \A i \in 1..Len(CallLog) :
         /\ CallLog[i].ev = "davidson" =>
              /\ CallLog[i].e.t = IF call.nroots = 1 THEN "scalar" ELSE "array"
              /\ i < Len(CallLog)
              /\ CallLog[i + 1].ev = "note"
              /\ CallLog[i + 1].stable = ~(Lowest(CallLog[i].e) < Threshold)
         /\ CallLog[i].ev = "rotate" =>
              \/ CallLog[i].dx.t = "vec" /\ CallLog[i].dx.root = 0
              \/ /\ CallLog[i].dx.t = "slice"
                 /\ CallLog[i].dx.of.t = "vec" /\ CallLog[i].dx.of.root = 0

\* C7 for every dispatcher but dhf_stability
C7_LowestRootDecides_ExceptDhf ==
  call.mf.ref = "dhf" \/ C7_LowestRootDecides

(***************************************************************************)
(* C8: for a real-valued generalized reference the real -> complex solve   *)
(* always follows the internal one and writes its own note, and the        *)
(* returned orbitals and verdict are those of the internal channel: a run  *)
(* that differs only in the real -> complex eigenpair returns the same.    *)
(***************************************************************************)
C8_GhfRealInternalOnly ==
  (Called /\ call.mf.ref = "ghf" /\ ~is_complex(call.mf)) =>
    LET n == Len(CallLog)
        st == ~(call.sp.int[1] < Threshold)
        v == [t |-> "vec", chan |-> "ghf_real_internal", root |-> 0]
        mo == IF st THEN mo_coeff(call.mf)
              ELSE rotate_mo(mo_coeff(call.mf), mo_occ(call.mf), v)
        k == Len(is_complex_log(call.mf)) + 1
    IN /\ Returned
       /\ n >= k + 3
       /\ CallLog[k].ev = "davidson" /\ CallLog[k].chan = "ghf_real_internal"
       /\ CallLog[n - 1].ev = "davidson" /\ CallLog[n - 1].chan = "ghf_real2complex"
       /\ CallLog[n] = Note("real -> complex", ~(call.sp.r2c[1] < Threshold))
       /\ call.res.ret = IF call.return_status THEN Tuple(<<mo, Bool(st)>>) ELSE mo
       /\ \A sp2 \in Spectra(call.nroots) :
            ghf_real(call.mf, call.return_status, call.nroots, call.sp.int, sp2).ret
              = call.res.ret

C8_Witness ==
  /\ Returned /\ call.fn = "ghf_stability" /\ ~is_complex(call.mf)
  /\ call.return_status
  /\ ~(call.sp.int[1] < Threshold) /\ call.sp.r2c[1] < Threshold
  /\ Item(call.res.ret, 1) = Bool(TRUE)
  /\ Item(call.res.ret, 0) = mo_coeff(call.mf)

(***************************************************************************)
(* Reading the trace of stable_opt_internal                                *)
(***************************************************************************)
Count(op) == Cardinality({i \in 1..Len(trace) : trace[i].op = op})
NumRuns == Count("run")
NumQueries == Count("query")
InLoop == pc \in {"while", "run", "query"}
Left == pc \in {"done", "raised"}

(***************************************************************************)
(* C2: stable_opt_internal terminates; it performs at most max_attempt     *)
(* re-optimizations and one query more than re-optimizations; on return    *)
(* the last verdict is stable or exactly max_attempt re-optimizations were *)
(* performed; a stable first query, or max_attempt = 0, means no           *)
(* re-optimization and the input solution returned.                        *)
(***************************************************************************)
C2_Counts ==
  /\ NumRuns <= max_attempt
  /\ pc = "done" =>
       /\ NumQueries = NumRuns + 1
       /\ Truth(stable) \/ NumRuns = max_attempt
       /\ (trace[1].stable = Bool(TRUE) \/ max_attempt = 0) =>
            (NumRuns = 0 /\ mf.id = 0)

C2_Terminates == []C2_Counts /\ (InLoop ~> Left)

C2_Witness ==
  /\ pc = "done" /\ ~Truth(stable)
  /\ max_attempt >= 2 /\ NumRuns = max_attempt /\ NumQueries = max_attempt + 1

(***************************************************************************)
(* C3: when the budget is used up with the solution still unstable the     *)
(* driver does not raise: it notes 'Stability Opt failed after N attempts' *)
(* with N the number of re-optimizations and returns the solution of the   *)
(* last re-optimization; the note is written if and only if the last       *)
(* verdict is unstable.                                                    *)
(***************************************************************************)
FailedNotes == {i \in 1..Len(trace) : trace[i].op = "note_failed"}

C3_FailureNoted ==
  /\ pc = "done" =>
       /\ (FailedNotes # {}) <=> ~Truth(stable)
       /\ ~Truth(stable) =>
            /\ cyc = max_attempt
            /\ FailedNotes = {Len(trace)}
            /\ trace[Len(trace)].n = NumRuns
            /\ mf.id = NumRuns
            /\ NumRuns > 0 =>
                 \E i \in 1..Len(trace) : trace[i].op = "run" /\ trace[i].new = mf.id
  /\ pc # "done" => FailedNotes = {}
  /\ pc = "raised" => (call.fn = "stability" /\ call.res.status = "raise")

C3_Witness ==
  /\ pc = "done" /\ ~Truth(stable) /\ max_attempt = 2
  /\ trace[Len(trace)] = Failed(2) /\ mf.id = 2

(***************************************************************************)
(* C9 as stated: every query of stable_opt_internal asks for the internal  *)
(* channel alone, so that no solve of any external channel runs and        *)
(* rohf_external never raises; the pair acted on is (mo_internal,          *)
(* stable_internal) for 4-element and for 2-element results.               *)
(***************************************************************************)
QueryActsOnInternal ==
  /\ call.res.exc # "NotImplementedError"
  /\ Returned =>
       /\ call.res.ret.t = "tuple"
       /\ PyLen(call.res.ret) = IF FlagDispatcher THEN 4 ELSE 2
       /\ pc \in {"while", "done"}
       /\ mo1 = InternalMo
       /\ stable = InternalVerdict
       /\ stable = Bool(~(call.sp.int[1] < Threshold))
       /\ Truth(stable) <=> (mo1 = mo_coeff(mf))
       /\ mo1 # None

C9_NoExternalSolve ==
  call.fn = "stability" =>
    /\ \A i \in 1..Len(CallLog) :
         CallLog[i].ev = "davidson" => CallLog[i].chan \notin ExternalChans
    /\ QueryActsOnInternal

(***************************************************************************)
(* C9 as amended: no solve behind the external flag of rhf_stability,      *)
(* uhf_stability or rohf_stability runs and rohf_external never raises; a  *)
(* query on a real-valued generalized solution still runs the real ->      *)
(* complex solve of ghf_real, after the internal one; the pair acted on is *)
(* (mo_internal, stable_internal) for 4- and for 2-element results.        *)
(***************************************************************************)
C9_InternalOnly ==
  call.fn = "stability" =>
    /\ \A i \in 1..Len(CallLog) :
         CallLog[i].ev = "davidson" =>
           \/ CallLog[i].chan \in InternalChans
           \/ /\ CallLog[i].chan = "ghf_real2complex"
              /\ call.mf.ref = "ghf" /\ ~is_complex(call.mf)
              /\ i > 1
    /\ QueryActsOnInternal

C9_Witness ==
  /\ pc = "while" /\ call.fn = "stability" /\ call.mf.ref = "rohf"
  /\ PyLen(call.res.ret) = 4
  /\ ~Truth(stable) /\ mo1 = Item(call.res.ret, 0) /\ mo1 # mo_coeff(mf)

(***************************************************************************)
(* C10: the driver's events are query, (make_rdm1, run, query)*: each      *)
(* re-optimization directly follows make_rdm1 of the orbitals the latest   *)
(* query returned and the occupations of the solution it was made on, is   *)
(* directly followed by a query on the solution it returned, and the       *)
(* solution returned at exit is the one of the last query.                 *)
(***************************************************************************)
C10_EventOrder ==
  /\ \A i \in 1..Len(trace) :
       /\ trace[i].op = "query" =>
            (i = 1 \/ (trace[i - 1].op = "run" /\ trace[i - 1].new = trace[i].on))
       /\ trace[i].op = "make_rdm1" =>
            /\ i > 1 /\ trace[i - 1].op = "query"
            /\ trace[i].mo = trace[i - 1].mo
            /\ trace[i].occ = [t |-> "occ", of |-> trace[i - 1].on]
       /\ trace[i].op = "run" =>
            /\ i > 1 /\ trace[i - 1].op = "make_rdm1"
            /\ trace[i].dm = make_rdm1(trace[i - 1].mo, trace[i - 1].occ)
            /\ IF i < Len(trace) THEN trace[i + 1].op = "query"
               ELSE \/ pc = "query" /\ mf.id = trace[i].new
                    \/ /\ pc = "raised" /\ call.fn = "stability"
                       /\ call.mf.id = trace[i].new
       /\ trace[i].op = "note_failed" => (i = Len(trace) /\ trace[i - 1].op = "query")
  /\ pc \in {"while", "done"} => trace[1].op = "query"
  /\ pc = "done" =>
       \E i \in 1..Len(trace) :
         /\ trace[i].op = "query" /\ trace[i].on = mf.id
         /\ \A j \in (i + 1)..Len(trace) : trace[j].op = "note_failed"

C10_Witness ==
  /\ pc = "done" /\ NumRuns = 2 /\ Truth(stable)
  /\ Len(trace) = 7
  /\ trace[5].op = "make_rdm1" /\ trace[5].mo = trace[4].mo
  /\ trace[5].mo # [t |-> "coeff", of |-> 1]

\* the latest call ended in an exception
Raised == Called /\ call.res.status = "raise"

(***************************************************************************)
(* C16 as stated: when rohf_stability is called with internal=True and     *)
(* external=True, nothing of the internal channel (no eigen-solve, no      *)
(* status note, no rotation) happens before the unsupported-operation      *)
(* error.                                                                  *)
(***************************************************************************)
C16_NothingBeforeError ==
  (Called /\ call.fn = "rohf_stability" /\ call.internal /\ call.external) =>
    /\ Raised /\ call.res.exc = "NotImplementedError"
    /\ CallLog = <<>>

(***************************************************************************)
(* What the code does instead: a call of rohf_stability with external=True *)
(* always ends in the unsupported-operation error, raised on entry to      *)
(* rohf_external (line 200 or 206, after line 198 or 204); with            *)
(* internal=True the whole internal channel has run before it (its         *)
(* eigen-solve, its status note and, when unstable, its rotation, and      *)
(* nothing else), and with internal=False nothing has.                     *)
(***************************************************************************)
C16_InternalRunsBeforeError_AsCoded ==
  (Called /\ call.fn = "rohf_stability" /\ call.external) =>
    LET st == ~(call.sp.int[1] < Threshold)
        v == [t |-> "vec", chan |-> "rohf_internal", root |-> 0]
    IN /\ Raised /\ call.res.exc = "NotImplementedError"
       /\ call.res.ret = None
       /\ ~call.internal => CallLog = <<>>
       /\ call.internal =>
            /\ Len(CallLog) = IF st THEN 2 ELSE 3
            /\ CallLog[1].ev = "davidson" /\ CallLog[1].chan = "rohf_internal"
            /\ CallLog[2] = Note("internal", st)
            /\ ~st => CallLog[3] = Rotate(mo_coeff(call.mf), mo_occ(call.mf), v)

(***************************************************************************)
(* Reading the external part of a call of rhf_stability or uhf_stability   *)
(***************************************************************************)
\* the part of the log written by the external channel
ExternalLog == SubSeq(CallLog, Len(InternalLog) + 1, Len(CallLog))

\* the orbitals a returned call gives for the external channel
ExternalMo == Item(call.res.ret, 1)

\* the events of the log that rotate orbitals
Rotations(log) ==
  {i \in 1..Len(log) : log[i].ev \in {"rotate", "expmat"}}

(***************************************************************************)
(* C17: in rhf_external and uhf_external the real -> complex channel is    *)
(* solved first and its verdict logged, then the reference-extension       *)
(* channel; the returned external verdict is the threshold test of the     *)
(* reference-extension eigenvalue alone, a rotation happens exactly when   *)
(* that verdict is unstable and uses the reference-extension eigenvector,  *)
(* and a run that differs only in the real -> complex spectrum returns the *)
(* same.  rhf_external returns a pair whose second element is the input    *)
(* coefficients.                                                           *)
(***************************************************************************)
C17_ExtensionDecides ==
  (Returned /\ call.fn \in {"rhf_stability", "uhf_stability"} /\ call.external) =>
    LET rhf == call.mf.ref = "rhf"
        st == ~(call.sp.ext[1] < Threshold)
        x == ExternalLog
        r2c == IF rhf THEN "rhf_real2complex" ELSE "uhf_real2complex"
        ext == IF rhf THEN "rhf_external" ELSE "uhf_external"
        v == [t |-> "vec", chan |-> ext, root |-> 0]
    IN /\ Len(x) = IF st THEN 4 ELSE 5
       /\ x[1].ev = "davidson" /\ x[1].chan = r2c
       /\ Lowest(x[1].e) = call.sp.r2c[1]
       /\ x[2] = Note("real -> complex", ~(call.sp.r2c[1] < Threshold))
       /\ x[3].ev = "davidson" /\ x[3].chan = ext
       /\ x[4] = Note(IF rhf THEN "RHF/RKS -> UHF/UKS" ELSE "UHF/UKS -> GHF/GKS", st)
       /\ call.return_status => Item(call.res.ret, 3) = Bool(st)
       /\ Rotations(x) = IF st THEN {} ELSE {5}
       /\ ~st => x[5].dx = v
       /\ rhf =>
            /\ ExternalMo.t = "tuple" /\ PyLen(ExternalMo) = 2
            /\ Item(ExternalMo, 1) = mo_coeff(call.mf)
            /\ Item(ExternalMo, 0) =
                 IF st THEN mo_coeff(call.mf)
                 ELSE rotate_mo(mo_coeff(call.mf), mo_occ(call.mf), v)
       /\ ~rhf =>
            ExternalMo =
              IF st THEN [t |-> "block_diag", of |-> mo_coeff(call.mf)]
              ELSE [t |-> "occ_first", of |->
                      [t |-> "expmat",
                       mo |-> [t |-> "block_diag", of |-> mo_coeff(call.mf)],
                       occ |-> mo_occ(call.mf), dx |-> v]]
       /\ \A sp1 \in Spectra(call.nroots) :
            (IF rhf
             THEN rhf_external(call.mf, call.return_status, call.nroots,
                               sp1, call.sp.ext)
             ELSE uhf_external(call.mf, call.return_status, call.nroots,
                               sp1, call.sp.ext)).ret
              = IF call.return_status
                THEN Tuple(<<ExternalMo, Item(call.res.ret, 3)>>)
                ELSE ExternalMo

C17_Witness ==
  /\ Returned /\ call.fn = "rhf_stability" /\ call.external /\ call.return_status
  /\ call.sp.r2c[1] < Threshold /\ ~(call.sp.ext[1] < Threshold)
  /\ ExternalLog[2] = Note("real -> complex", FALSE)
  /\ Item(call.res.ret, 3) = Bool(TRUE)
  /\ ExternalMo = Tuple(<<mo_coeff(call.mf), mo_coeff(call.mf)>>)
  /\ Rotations(ExternalLog) = {}

(***************************************************************************)
(* Reading which handler a call of ghf_stability ran                       *)
(***************************************************************************)
\* the channels solved during the latest call
SolvedChans(log) ==
  {log[i].chan : i \in {j \in 1..Len(log) : log[j].ev = "davidson"}}

\* the positions of the log at which is_complex built the density matrix
DmBuilt(log) == {i \in 1..Len(log) : log[i].ev = "make_rdm1"}

RanGhfReal(log) == "ghf_real_internal" \in SolvedChans(log)
RanGhfComplex(log) == "ghf_complex_internal" \in SolvedChans(log)

(***************************************************************************)
(* C14: ghf_stability runs ghf_real, and builds no density matrix, when    *)
(* mo_coeff has dtype float64; otherwise it builds the density matrix once,*)
(* before any solve, and runs ghf_complex if and only if the largest       *)
(* absolute imaginary part exceeds 1e-6 strictly, else ghf_real.  Exactly  *)
(* one handler runs, its result is the call's result, and the call with    *)
(* the other value of return_status runs the same handler.                 *)
(***************************************************************************)
C14_GhfRouting ==
  (Called /\ call.fn = "ghf_stability") =>
    LET m == call.mf
        other == ghf_stability(m, ~call.return_status, call.nroots, call.sp)
    IN /\ RanGhfReal(CallLog) # RanGhfComplex(CallLog)
       /\ SolvedChans(CallLog) \subseteq
            (IF RanGhfComplex(CallLog) THEN {"ghf_complex_internal"}
             ELSE {"ghf_real_internal", "ghf_real2complex"})
       /\ m.dtype = "float64" => (RanGhfReal(CallLog) /\ DmBuilt(CallLog) = {})
       /\ m.dtype # "float64" =>
            /\ DmBuilt(CallLog) = {1}
            /\ RanGhfComplex(CallLog) <=> m.imag > ImagTol
       /\ call.res.ret =
            IF RanGhfComplex(CallLog)
            THEN ghf_complex(m, call.return_status, call.nroots, call.sp.int).ret
            ELSE ghf_real(m, call.return_status, call.nroots,
                          call.sp.int, call.sp.r2c).ret
       /\ RanGhfComplex(other.log) = RanGhfComplex(CallLog)
       /\ RanGhfReal(other.log) = RanGhfReal(CallLog)
       /\ DmBuilt(other.log) = DmBuilt(CallLog)

\* a complex-typed solution whose density matrix has |imag| of exactly 1e-6
\* has its density matrix built and is handled by ghf_real
C14_Witness ==
  /\ Returned /\ call.fn = "ghf_stability"
  /\ call.mf.dtype = "complex128" /\ call.mf.imag = ImagTol
  /\ DmBuilt(CallLog) = {1}
  /\ RanGhfReal(CallLog) /\ ~RanGhfComplex(CallLog)

(***************************************************************************)
(* C13: a preconditioner returns the residual divided entrywise by         *)
(* hdiag - e in which every entry of magnitude below 1e-8 was replaced by  *)
(* +1e-8; no divisor has magnitude below 1e-8, whatever e is, and the      *)
(* diagonal the closure captured is the same after the call.               *)
(***************************************************************************)
C13_PrecondFloor ==
  num.fn = "precond" =>
    /\ DOMAIN num.out.ret = DOMAIN num.dx
    /\ \A i \in DOMAIN num.dx :
         LET d == num.hdiag[i] - num.e
             q == num.out.ret[i]
         IN /\ q.num = num.dx[i]
            /\ q.den = IF -PrecondFloor < d /\ d < PrecondFloor
                       THEN PrecondFloor ELSE d
            /\ q.den >= PrecondFloor \/ q.den <= -PrecondFloor
    /\ num.out.hdiag = num.hdiag

\* a call in which one entry of hdiag - e is exactly -1e-8 and is kept, and
\* the other is small and negative and is replaced by +1e-8
C13_Witness ==
  /\ pc = "returned" /\ num.fn = "precond"
  /\ num.hdiag = <<0, 9>> /\ num.e = 10 /\ num.dx = <<3, 3>>
  /\ num.out.ret = <<Div(3, -PrecondFloor), Div(3, PrecondFloor)>>
  /\ num.out.hdiag = <<0, 9>>

(***************************************************************************)
(* C12 as stated: in every channel the guess, before the symmetry-breaking *)
(* override, is 1/hdiag[i] wherever the diagonal is non-negligible (of     *)
(* magnitude above the cutoff 1e-5) and 0 elsewhere, and no entry is a     *)
(* quotient by a zero diagonal entry.                                      *)
(***************************************************************************)
NonNegligible(h) == Abs(h) > GuessCut

C12_GuessIsInverseDiagonal ==
  num.fn = "guess" =>
    \A i \in DOMAIN num.seed :
      /\ num.seed[i] = IF NonNegligible(num.hdiag[i])
                       THEN Div(1, num.hdiag[i]) ELSE Zero
      /\ num.seed[i].den # 0

(***************************************************************************)
(* What the code does instead: the channels built on a gradient seed        *)
(* 1/hdiag[i] exactly where g[i] is non-zero, whatever hdiag[i] is (zero    *)
(* included); the others seed 1/hdiag[i] exactly where hdiag[i] > 1e-5, so  *)
(* never divide by zero but give 0 to large negative entries; the           *)
(* RHF -> UHF solve is seeded with an eigenvector.                          *)
(***************************************************************************)
C12_GuessAsCoded ==
  num.fn = "guess" =>
    \A i \in DOMAIN num.seed :
      /\ num.chan \in GradSeeded =>
           num.seed[i] = IF num.g[i] # 0 THEN Div(1, num.hdiag[i]) ELSE Zero
      /\ num.chan \in DiagSeeded =>
           /\ num.seed[i] = IF num.hdiag[i] > GuessCut
                            THEN Div(1, num.hdiag[i]) ELSE Zero
           /\ num.seed[i].den # 0

(***************************************************************************)
(* C15 as stated: the orbitals uhf_external returns have 2*nmo columns, and *)
(* every column of an occupied orbital (the alpha ones, then the beta ones) *)
(* comes before every column of a virtual orbital, whatever the verdict and *)
(* the occupation pattern.                                                  *)
(***************************************************************************)
\* the orbital of a returned column is occupied in the UHF solution
IsOccupied(c) == num.mo_occ[IF c.s = "a" THEN 1 ELSE 2][c.p] > 0

C15_OccupiedFirst ==
  num.fn = "uhf_external_mo" =>
    /\ Len(num.mo) = 2 * Len(num.mo_occ[1])
    /\ \A i, j \in DOMAIN num.mo :
         /\ (i < j /\ IsOccupied(num.mo[j])) => IsOccupied(num.mo[i])
         /\ (i < j /\ IsOccupied(num.mo[i]) /\ IsOccupied(num.mo[j])
               /\ num.mo[i].s = "b") => num.mo[j].s = "b"

(***************************************************************************)
(* What the code does instead: the columns are occupied-first exactly when  *)
(* the verdict is unstable and each spin channel has its occupied orbitals  *)
(* at the lowest indices, or when no virtual alpha orbital or no occupied   *)
(* beta orbital exists; the columns are always a permutation of the 2*nmo   *)
(* columns of block_diag.                                                   *)
(***************************************************************************)
\* the occupied-first order that follows occidx and viridx: alpha occupied,
\* beta occupied, alpha virtual, beta virtual columns
uhf_external_mo_by_index(occa, occb, st) ==
  LET nmo == Len(occa)
      mo == IF st THEN block_diag(nmo)
            ELSE rotate_columns(block_diag(nmo), coupled(occa, occb))
      pick(idx, off) == [i \in DOMAIN idx |-> mo[off + idx[i]]]
  IN pick(where(occa, {1}), 0) \o pick(where(occb, {1}), nmo)
       \o pick(where(occa, {0}), 0) \o pick(where(occb, {0}), nmo)

Aufbau(occ) == \A p, q \in DOMAIN occ : (p < q /\ occ[q] > 0) => occ[p] > 0

C15_OccupiedFirst_AsCoded ==
  num.fn = "uhf_external_mo" =>
    LET occa == num.mo_occ[1]
        occb == num.mo_occ[2]
    IN /\ Len(num.mo) = 2 * Len(occa)
       /\ {[s |-> num.mo[k].s, p |-> num.mo[k].p] : k \in DOMAIN num.mo}
            = [s : {"a", "b"}, p : DOMAIN occa]
       /\ (~num.stable /\ Aufbau(occa) /\ Aufbau(occb)) =>
            num.mo = uhf_external_mo_by_index(occa, occb, FALSE)
       /\ num.stable => num.mo = block_diag(Len(occa))

(***************************************************************************)
(* C11: with with_symmetry set on a molecule with symmetry labels, each of  *)
(* hop_real2complex and hop_rhf2uhf (RHF), hop_real2complex and hop_uhf2ghf *)
(* (UHF) and hop_real2complex (GHF) returns a vector of the length of the   *)
(* trial vector that is zero at every entry whose virtual and occupied      *)
(* orbital have different symmetry labels, returns the zero vector when the *)
(* trial vector is zero at every other entry, and is paired with a diagonal *)
(* that is zero at every such entry.                                        *)
(***************************************************************************)
\* the symmetry label of orbital p of spin channel s in the latest call
LabelOf(s, p) == IF num.gen = "uhf" THEN num.orbsym[s][p] ELSE num.orbsym[p]

\* entry k couples orbitals of different symmetry labels
Forbidden(k) ==
  LabelOf(num.pairs[k].vs, num.pairs[k].v) # LabelOf(num.pairs[k].os, num.pairs[k].o)

C11_SymmetryProjection ==
  (num.fn = "hop" /\ num.with_symmetry /\ num.symmetry) =>
    /\ Len(num.x2) = Len(num.x1)
    /\ Len(num.hdiag) = Len(num.x1)
    /\ Len(num.pairs) = Len(num.x1)
    /\ \A k \in DOMAIN num.x2 :
         Forbidden(k) => (num.x2[k] = 0 /\ num.hdiag[k] = 0)
    /\ (\A k \in DOMAIN num.x1 : num.x1[k] # 0 => Forbidden(k)) =>
         \A k \in DOMAIN num.x2 : num.x2[k] = 0

\* hop_uhf2ghf on a trial vector of ones with both allowed and forbidden
\* entries: the product is non-zero at an allowed entry, zero at the
\* forbidden ones
C11_Witness ==
  /\ pc = "returned" /\ num.fn = "hop" /\ num.op = "uhf2ghf"
  /\ num.with_symmetry /\ num.symmetry
  /\ \A k \in DOMAIN num.x1 : num.x1[k] = 1
  /\ \E k \in DOMAIN num.x2 : Forbidden(k) /\ num.x2[k] = 0
  /\ \E k \in DOMAIN num.x2 : ~Forbidden(k) /\ num.x2[k] # 0

(***************************************************************************)
(* C18 as stated: whenever a channel is unstable and rotates, the vector   *)
(* handed to the rotation step has as many entries as the step takes for   *)
(* the occupation handed with it: nvir*nocc for rhf, ghf_real, ghf_complex *)
(* and dhf, the unique pairs for rohf, nocca*nvira then noccb*nvirb for    *)
(* uhf_internal, nvira*noccb then nvirb*nocca for uhf_external.            *)
(***************************************************************************)
\* the number of orbitals of occupation vector occ with occupation in vals
NumOrb(occ, vals) == Cardinality({p \in DOMAIN occ : occ[p] \in vals})

C18_VectorLength ==
  num.fn = "rotation" =>
    LET occ == num.mo_occ
        a == num.args
    IN /\ \A i \in DOMAIN a : a[i].len = a[i].pairs
       /\ num.chan \in {"rhf_internal", "rhf_external", "ghf_real_internal",
                        "ghf_complex_internal", "dhf_internal"} =>
            /\ Len(a) = 1
            /\ a[1].len = NumOrb(occ, {0}) * NumOrb(occ, {1, 2})
       /\ num.chan = "rohf_internal" => Len(a) = 1
       /\ num.chan = "uhf_internal" =>
            /\ Len(a) = 2
            /\ a[1].len = NumOrb(occ[1], {1}) * NumOrb(occ[1], {0})
            /\ a[2].len = NumOrb(occ[2], {1}) * NumOrb(occ[2], {0})
       /\ num.chan = "uhf_external" =>
            /\ Len(a) = 2
            /\ a[1].len = NumOrb(occ[1], {0}) * NumOrb(occ[2], {1})
            /\ a[2].len = NumOrb(occ[2], {0}) * NumOrb(occ[1], {1})

(***************************************************************************)
(* What the code does instead: the lengths agree in every channel but      *)
(* ghf_complex, whose eigenvector has 2*nocc*nvir entries, twice the       *)
(* number of pairs of the occupation vector it is handed with.             *)
(***************************************************************************)
C18_VectorLength_ExceptGhfComplex ==
  IF num.fn = "rotation" /\ num.chan = "ghf_complex_internal"
  THEN /\ Len(num.args) = 1
       /\ num.args[1].pairs = NumOrb(num.mo_occ, {0}) * NumOrb(num.mo_occ, {1})
       /\ num.args[1].len = 2 * num.args[1].pairs
  ELSE C18_VectorLength

====
